---- MODULE Spec2Model ----
(***************************************************************************)
(* Model of the asynchronous speech-generation backend: the in-memory      *)
(* ProgressTracker registry, the TTSService singleton with its resident    *)
(* backend model, the filesystem store of voices and generations, and the  *)
(* background pipeline _generate_speech_background that FastAPI runs in a  *)
(* worker thread while the event loop keeps serving requests.              *)
(*                                                                         *)
(* Specifications:                                                         *)
(*   TrackerSpec  the ProgressTracker driven call by call (each method     *)
(*                runs to completion before the next call);                *)
(*   Spec         the HTTP handlers on the event loop interleaved with the *)
(*                pipeline threads, one step per access to shared state;   *)
(*   FairSpec     Spec with the worker threads scheduled fairly;           *)
(*   MixedSpec    the pipeline beside the synchronous generation handler;  *)
(*   CleanupSpec  the ProgressTracker over time, with cleanup_old_tasks;   *)
(*   VoiceSpec    the voice routes, whose store writes may fail part way,  *)
(*                beside both generation handlers;                         *)
(*   StoreSpec    the store of voices and generations: uploads of any      *)
(*                format, generations written and deleted, over time;      *)
(*   BackendSpec  the backend instances and the TTSService driven call by  *)
(*                call, on either platform.                                *)
(***************************************************************************)
EXTENDS Integers, Sequences, FiniteSets, TLC

\* ------------------------------------------------------------------ bounds
MaxTasks == 1          \* asynchronous requests accepted (pipeline threads)
MaxGens == 2           \* generation ids the store allocates
MaxTrackerIds == 2     \* task ids the callers of TrackerSpec use

TaskIds == 1..MaxTasks
GenIds == 1..MaxGens
TrackerIds == 1..MaxTrackerIds

\* ----------------------------------------------------------- option values
\* Python's Optional[X]: None is the empty sequence, a value x is <<x>>.
None == <<>>
Some(x) == <<x>>

Min(a, b) == IF a < b THEN a ELSE b
Max(a, b) == IF a > b THEN a ELSE b

\* ------------------------------------------------------------- TaskStatus
PENDING == "pending"
INITIALIZING == "initializing"
GENERATING == "generating"
PROCESSING == "processing"
COMPLETED == "completed"
FAILED == "failed"
TaskStatus == {PENDING, INITIALIZING, GENERATING, PROCESSING, COMPLETED, FAILED}
Terminal == {COMPLETED, FAILED}

\* ------------------------------------------------ ProgressTracker methods
\* The registry _tasks is a function from the tracked ids to task records.
\* Every method is written as the sequence of dictionary stores the source
\* performs, so that the pipeline threads of Spec can take them one at a
\* time while TrackerSpec applies them all within one call.

\* datetime.now(), in ticks of the wall clock.
VARIABLE now

\* config.MLX_MODELS or config.PYTORCH_MODELS, whichever the platform makes
\* list_available_models return.
VARIABLE catalog

\* datetime.isoformat and datetime.fromisoformat: the timestamp is kept as
\* text and parsed back when it is compared.
isoformat(t) == <<"iso", t>>
fromisoformat(s) == s[2]

\* The record create_task stores.
NewTask(description) ==
    [status |-> PENDING, progress |-> 0, message |-> description,
     updated_at |-> isoformat(now), result |-> None, error |-> None]

\* create_task leaving a tracked record alone (used against C39).
create_task_keep(reg, task_id, description) ==
    [x \in (DOMAIN reg) \cup {task_id} |->
        IF x = task_id /\ x \notin DOMAIN reg THEN NewTask(description) ELSE reg[x]]
create_task(reg, task_id, description) ==
    [x \in (DOMAIN reg) \cup {task_id} |->
        IF x = task_id THEN NewTask(description) ELSE reg[x]]

\* update_progress storing the progress as given (used against C11).
update_progress_store_unclamped(k, task, status, progress, message) ==
    CASE k = 4 -> [task EXCEPT !.updated_at = isoformat(now)]
      [] k = 1 -> IF status # None THEN [task EXCEPT !.status = status[1]] ELSE task
      [] k = 2 -> IF progress # None THEN [task EXCEPT !.progress = progress[1]] ELSE task
      [] k = 3 -> IF message # None THEN [task EXCEPT !.message = message[1]] ELSE task

\* The k-th store of update_progress on the record `task`.
update_progress_store(k, task, status, progress, message) ==
    CASE k = 4 -> [task EXCEPT !.updated_at = isoformat(now)]
      [] k = 1 -> IF status # None THEN [task EXCEPT !.status = status[1]] ELSE task
      [] k = 2 -> IF progress # None
                  THEN [task EXCEPT !.progress = Min(100, Max(0, progress[1]))]
                  ELSE task
      [] k = 3 -> IF message # None THEN [task EXCEPT !.message = message[1]] ELSE task

\* The k-th store of complete_task.
complete_task_store(k, task, result) ==
    CASE k = 5 -> [task EXCEPT !.updated_at = isoformat(now)]
      [] k = 1 -> [task EXCEPT !.status = COMPLETED]
      [] k = 2 -> [task EXCEPT !.progress = 100]
      [] k = 3 -> [task EXCEPT !.message = "Completed successfully"]
      [] k = 4 -> [task EXCEPT !.result = Some(result)]

\* fail_task with the progress reset as well (used against C10).
fail_task_store_reset(k, task, error) ==
    CASE k = 4 -> [task EXCEPT !.updated_at = isoformat(now)]
      [] k = 1 -> [task EXCEPT !.status = FAILED, !.progress = 0]
      [] k = 2 -> [task EXCEPT !.message = "Failed"]
      [] k = 3 -> [task EXCEPT !.error = Some(error)]

\* fail_task without the status store (used against C4).
fail_task_store_nostatus(k, task, error) ==
    CASE k = 4 -> [task EXCEPT !.updated_at = isoformat(now)]
      [] k = 1 -> task
      [] k = 2 -> [task EXCEPT !.message = "Failed"]
      [] k = 3 -> [task EXCEPT !.error = Some(error)]

\* The k-th store of fail_task.
fail_task_store(k, task, error) ==
    CASE k = 4 -> [task EXCEPT !.updated_at = isoformat(now)]
      [] k = 1 -> [task EXCEPT !.status = FAILED]
      [] k = 2 -> [task EXCEPT !.message = "Failed"]
      [] k = 3 -> [task EXCEPT !.error = Some(error)]

\* A tracker call in flight: the method and its arguments.
UpdateCall(status, progress, message) ==
    [op |-> "update_progress", status |-> status, progress |-> progress,
     message |-> message, result |-> None, error |-> None]
CompleteCall(result) ==
    [op |-> "complete_task", status |-> None, progress |-> None,
     message |-> None, result |-> Some(result), error |-> None]
FailCall(error) ==
    [op |-> "fail_task", status |-> None, progress |-> None,
     message |-> None, result |-> None, error |-> Some(error)]

NumStores(call) ==
    CASE call.op = "update_progress" -> 4
      [] call.op = "complete_task" -> 5
      [] call.op = "fail_task" -> 4

Store(call, k, task) ==
    CASE call.op = "update_progress" ->
            update_progress_store(k, task, call.status, call.progress, call.message)
      [] call.op = "complete_task" -> complete_task_store(k, task, call.result[1])
      [] call.op = "fail_task" -> fail_task_store(k, task, call.error[1])

\* The record after the first k stores of the call.
RECURSIVE StoresUpTo(_, _, _)
StoresUpTo(call, k, task) ==
    IF k = 0 THEN task ELSE Store(call, k, StoresUpTo(call, k - 1, task))

\* A method call that starts a record for an id it does not find (used
\* against C12).
RunCall_upsert(reg, task_id, call) ==
    [x \in (DOMAIN reg) \cup {task_id} |->
        IF x = task_id
        THEN StoresUpTo(call, NumStores(call),
                        IF task_id \in DOMAIN reg THEN reg[task_id] ELSE NewTask(""))
        ELSE reg[x]]

\* A whole method call on the registry: an untracked id returns at once.
RunCall(reg, task_id, call) ==
    IF task_id \notin DOMAIN reg
    THEN reg
    ELSE [reg EXCEPT ![task_id] = StoresUpTo(call, NumStores(call), reg[task_id])]

update_progress(reg, task_id, status, progress, message) ==
    RunCall(reg, task_id, UpdateCall(status, progress, message))

complete_task(reg, task_id, result) == RunCall(reg, task_id, CompleteCall(result))

fail_task(reg, task_id, error) == RunCall(reg, task_id, FailCall(error))

get_task(reg, task_id) ==
    IF task_id \in DOMAIN reg THEN Some(reg[task_id]) ELSE None

delete_task(reg, task_id) == [x \in (DOMAIN reg) \ {task_id} |-> reg[x]]

\* Wall-clock ticks per hour: timedelta(hours=max_age_hours) in ticks.
TicksPerHour == 2

\* `for task_id in to_delete: self.delete_task(task_id)`.
RECURSIVE DeleteAll(_, _)
DeleteAll(reg, to_delete) ==
    IF to_delete = {}
    THEN reg
    ELSE LET t == CHOOSE x \in to_delete : TRUE
         IN DeleteAll(delete_task(reg, t), to_delete \ {t})

\* cleanup_old_tasks with `updated_at <= cutoff` (used against C14).
cleanup_old_tasks_inclusive(reg, max_age_hours) ==
    LET cutoff == now - max_age_hours * TicksPerHour
    IN DeleteAll(reg, {t \in DOMAIN reg :
                         /\ reg[t].status \in {COMPLETED, FAILED}
                         /\ fromisoformat(reg[t].updated_at) <= cutoff})

cleanup_old_tasks(reg, max_age_hours) ==
    LET cutoff == now - max_age_hours * TicksPerHour
    IN DeleteAll(reg, {t \in DOMAIN reg :
                         /\ reg[t].status \in {COMPLETED, FAILED}
                         /\ fromisoformat(reg[t].updated_at) < cutoff})


\* ---------------------------------------------------------- configuration
\* config.MLX_MODELS / config.PYTORCH_MODELS: two catalog entries per variant.
\* "m1" and "m2" stand for the first and the second entry of the active list.
Catalog == <<"m1", "m2">>
CatalogSet == {Catalog[i] : i \in 1..Len(Catalog)}
\* Model names a request may carry: absent, a catalog entry, or an unknown name.
RequestModels == {None} \cup {Some(m) : m \in CatalogSet \cup {"bad"}}
Variants == {"mlx", "pytorch"}
VoiceIds == {"v1", "v2", "v3"}
WavHeaderBytes == 44
MaxSamples == 1        \* samples a synthesis returns: 0..MaxSamples

\* AudioService.audio_to_wav_bytes, by the length of what it returns: the
\* 44-byte header wavfile.write emits and two bytes per int16 sample.
audio_to_wav_bytes(n) == WavHeaderBytes + 2 * n

\* ------------------------------------------------- StorageService (store)
\* A generation container: the audio.wav blob and the metadata.json record.
\* meta is "none" (no file), "partial" (file opened, content not written) or
\* "ok" (the record [voice_id, model, created_at] is on disk).
NewGenDir == [audio |-> FALSE, meta |-> "none", voice_id |-> "", model |-> "",
              created_at |-> None]

create_generation_mkdir(gs, id) ==
    [x \in (DOMAIN gs) \cup {id} |-> IF x = id THEN NewGenDir ELSE gs[x]]

create_generation_audio(gs, id) == [gs EXCEPT ![id].audio = TRUE]

\* open(meta_path, "w") creates the file; the write fills it.
create_generation_open(gs, id) == [gs EXCEPT ![id].meta = "partial"]

\* The metadata write that leaves the file as open() created it (used
\* against C5).
create_generation_meta_lost(gs, id, voice_id, model) ==
    [gs EXCEPT ![id].voice_id = voice_id, ![id].model = model,
               ![id].created_at = isoformat(now)]

create_generation_meta(gs, id, voice_id, model) ==
    [gs EXCEPT ![id].meta = "ok", ![id].voice_id = voice_id, ![id].model = model,
               ![id].created_at = isoformat(now)]

GenMetadata(gs, id) == [id |-> id, voice_id |-> gs[id].voice_id, model |-> gs[id].model]

\* get_generation: None when metadata.json is missing; json.loads raises on a
\* file that holds no complete record, so nothing is returned then either.
get_generation(gs, id) ==
    IF id \in DOMAIN gs /\ gs[id].meta = "ok" THEN Some(GenMetadata(gs, id)) ELSE None

\* get_generation_audio_path: the path when audio.wav exists.
get_generation_audio_path(gs, id) == id \in DOMAIN gs /\ gs[id].audio

\* list_generations, as the set of the records it returns (it raises, and so
\* returns nothing, when some metadata.json cannot be parsed).
list_generations_raises(gs) == \E id \in DOMAIN gs : gs[id].meta = "partial"
list_generations(gs, voice_id) ==
    IF list_generations_raises(gs)
    THEN {}
    ELSE {GenMetadata(gs, id) : id \in
            {x \in DOMAIN gs : gs[x].meta = "ok"
                               /\ (voice_id = None \/ gs[x].voice_id = voice_id[1])}}

delete_generation(gs, id) == [x \in (DOMAIN gs) \ {id} |-> gs[x]]

\* Audio bytes, four bytes to the element. WavData is a WAV file, WebmData a
\* recording in another container, ShortData fewer than twelve bytes.
WavData == <<"RIFF", "size", "WAVE", "fmt ">>
WebmData == <<"EBML", "webm", "Opus">>
ShortData == <<"RIFF", "WAVE">>

\* _is_valid_wav: at least 12 bytes, "RIFF" at 0 and "WAVE" at 8.
is_valid_wav(audio_data) ==
    Len(audio_data) >= 3 /\ audio_data[1] = "RIFF" /\ audio_data[3] = "WAVE"

\* What a converter returns for audio_data: a WAV file that is not the input.
Converted(audio_data, tool) == <<"RIFF", "size", "WAVE", tool>> \o audio_data

\* convert_to_wav: a WAV file is returned as it is; anything else goes to
\* ffmpeg and, when that fails, to soundfile. conv says which of them
\* decodes the data ("raise": neither, and RuntimeError is raised -- None).
ConvOutcomes == {"ffmpeg", "soundfile", "raise"}
convert_to_wav_always(audio_data, conv) ==
    IF conv = "raise" THEN None ELSE Some(Converted(audio_data, conv))

convert_to_wav(audio_data, conv) ==
    IF is_valid_wav(audio_data) THEN Some(audio_data)
    ELSE IF conv = "raise" THEN None
    ELSE Some(Converted(audio_data, conv))

\* A voice container: audio.wav, transcription.txt (its text, when present)
\* and metadata.json ("none": no file, "partial": created or truncated but
\* not written, "ok": written) with the has_transcription flag it records.
get_voice_raises(vs, voice_id) == voice_id \in DOMAIN vs /\ vs[voice_id].meta = "partial"
get_voice_container(vs, voice_id) == voice_id \in DOMAIN vs
get_voice(vs, voice_id) == voice_id \in DOMAIN vs /\ vs[voice_id].meta = "ok"
has_transcription(vs, voice_id) == vs[voice_id].has_transcription
get_voice_audio_path(vs, voice_id) == voice_id \in DOMAIN vs /\ vs[voice_id].audio

\* A text is the sequence of its characters.  Path.write_text opens the file
\* in text mode: each "\n" is written as os.linesep.
linesep == <<"\n">>
RECURSIVE write_text(_)
write_text(text) ==
    IF text = <<>> THEN <<>>
    ELSE (IF Head(text) = "\n" THEN linesep ELSE <<Head(text)>>) \o write_text(Tail(text))

\* Path.read_text opens the file with universal newlines: "\r\n" and a lone
\* "\r" are both read as "\n".
RECURSIVE read_text(_)
read_text(data) ==
    IF data = <<>> THEN <<>>
    ELSE IF Head(data) = "\r"
    THEN <<"\n">> \o read_text(IF Len(data) > 1 /\ data[2] = "\n"
                               THEN SubSeq(data, 3, Len(data)) ELSE Tail(data))
    ELSE <<Head(data)>> \o read_text(Tail(data))

get_voice_transcription(vs, voice_id) ==
    IF voice_id \in DOMAIN vs /\ vs[voice_id].transcription # None
    THEN Some(read_text(vs[voice_id].transcription[1])) ELSE None

\* One filesystem operation on a voice container: a file is created (or
\* truncated) when it is opened, and holds its content once written.
\* wav_data is what audio.wav receives, text what transcription.txt
\* receives, metadata the record [has_transcription, created_at] dumped to
\* metadata.json.
VoiceWrite(dir, op, wav_data, text, metadata) ==
    CASE op = "audio" -> [dir EXCEPT !.audio = TRUE, !.wav = wav_data]
      [] op = "trans_open" -> [dir EXCEPT !.transcription = Some(<<>>)]
      [] op = "trans" -> [dir EXCEPT !.transcription = Some(write_text(text))]
      [] op = "meta_open" -> [dir EXCEPT !.meta = "partial", !.has_transcription = FALSE,
                                         !.created_at = None]
      [] op = "meta" -> [dir EXCEPT !.meta = "ok",
                                    !.has_transcription = metadata.has_transcription,
                                    !.created_at = metadata.created_at]

RECURSIVE VoiceWrites(_, _, _, _, _, _)
VoiceWrites(dir, ops, k, wav_data, text, metadata) ==
    IF k = 0 \/ ops = <<>> THEN dir
    ELSE VoiceWrites(VoiceWrite(dir, Head(ops), wav_data, text, metadata), Tail(ops), k - 1,
                     wav_data, text, metadata)

Truthy_notnone(transcription) == transcription # None

\* `if transcription:` -- neither None nor the empty string
Truthy(transcription) == transcription # None /\ transcription[1] # <<>>

EmptyVoiceDir == [audio |-> FALSE, wav |-> <<>>, transcription |-> None, meta |-> "none",
                  has_transcription |-> FALSE, created_at |-> None]

CreateVoiceOps_metafirst(transcription) ==
    <<"meta_open", "meta", "audio">>
        \o (IF Truthy(transcription) THEN <<"trans_open", "trans">> ELSE <<>>)

\* The file operations of create_voice_sample after the mkdir.
CreateVoiceOps(transcription) ==
    <<"audio">> \o (IF Truthy(transcription) THEN <<"trans_open", "trans">> ELSE <<>>)
                \o <<"meta_open", "meta">>

\* create_voice_sample as far as its k-th filesystem operation (the mkdir
\* is the first).
\* conv is what the converters make of audio_data (see convert_to_wav).
create_voice_sample_upto(vs, k, voice_id, audio_data, conv, transcription) ==
    IF k = 0 THEN vs
    ELSE [x \in DOMAIN vs \cup {voice_id} |->
            IF x = voice_id
            THEN VoiceWrites(EmptyVoiceDir, CreateVoiceOps(transcription), k - 1,
                             IF convert_to_wav(audio_data, conv) = None
                             THEN audio_data ELSE convert_to_wav(audio_data, conv)[1],
                             IF Truthy(transcription) THEN transcription[1] ELSE <<>>,
                             [has_transcription |-> Truthy(transcription),
                              created_at |-> isoformat(now)])
            ELSE vs[x]]

create_voice_sample(vs, voice_id, audio_data, conv, transcription) ==
    create_voice_sample_upto(vs, 1 + Len(CreateVoiceOps(transcription)), voice_id,
                             audio_data, conv, transcription)

\* The file operations of update_voice_transcription: none when the
\* container is missing, the metadata rewrite only when metadata.json
\* exists and parses.
UpdateVoiceOps(vs, voice_id) ==
    IF voice_id \notin DOMAIN vs THEN <<>>
    ELSE <<"trans_open", "trans">>
            \o (IF vs[voice_id].meta = "ok" THEN <<"meta_open", "meta">> ELSE <<>>)

update_voice_transcription_upto(vs, k, voice_id, text) ==
    IF voice_id \notin DOMAIN vs THEN vs
    ELSE [vs EXCEPT ![voice_id] =
            VoiceWrites(vs[voice_id], UpdateVoiceOps(vs, voice_id), k, <<>>, text,
                        [has_transcription |-> TRUE,
                         created_at |-> vs[voice_id].created_at])]

update_voice_transcription(vs, voice_id, text) ==
    update_voice_transcription_upto(vs, Len(UpdateVoiceOps(vs, voice_id)), voice_id, text)

\* The value update_voice_transcription returns when no operation fails;
\* json.loads raises on a metadata.json that holds no document.
update_voice_transcription_raises(vs, voice_id) ==
    voice_id \in DOMAIN vs /\ vs[voice_id].meta = "partial"
update_voice_transcription_returns(vs, voice_id) == voice_id \in DOMAIN vs

\* The bytes read at the path get_voice_audio_path returns.
read_bytes(vs, voice_id) == vs[voice_id].wav

\* delete_voice: False when the container is missing, else rmtree and True.
delete_voice_returns(vs, voice_id) == voice_id \in DOMAIN vs
delete_voice_metaonly(vs, voice_id) == [vs EXCEPT ![voice_id].meta = "none"]

delete_voice(vs, voice_id) == [x \in (DOMAIN vs) \ {voice_id} |-> vs[x]]

\* The orders in which iterdir may yield the containers S.
Orders(S) ==
    {o \in [1..Cardinality(S) -> S] : \A i, j \in 1..Cardinality(S) : o[i] = o[j] => i = j}

\* created_at strings all have the layout isoformat gives them, in which
\* they compare as the times they were made from.
created_at_ge(a, b) == fromisoformat(a) >= fromisoformat(b)
created_at_le(a, b) == fromisoformat(a) <= fromisoformat(b)

\* sorted(entries, key=created_at, reverse=True): descending, entries with
\* equal keys in the order they came in.
RECURSIVE sorted_ascending(_)
sorted_ascending(entries) ==
    IF entries = <<>> THEN <<>>
    ELSE LET e == entries[Len(entries)]
             s == sorted_ascending(SubSeq(entries, 1, Len(entries) - 1))
             n == Cardinality({k \in 1..Len(s) : created_at_le(s[k].created_at, e.created_at)})
         IN  SubSeq(s, 1, n) \o <<e>> \o SubSeq(s, n + 1, Len(s))

RECURSIVE sorted_reverse(_)
sorted_reverse(entries) ==
    IF entries = <<>> THEN <<>>
    ELSE LET e == entries[Len(entries)]
             s == sorted_reverse(SubSeq(entries, 1, Len(entries) - 1))
             n == Cardinality({k \in 1..Len(s) : created_at_ge(s[k].created_at, e.created_at)})
         IN  SubSeq(s, 1, n) \o <<e>> \o SubSeq(s, n + 1, Len(s))

\* The entries of a directory walk that pass `keep`, in walk order.
RECURSIVE Walk(_, _, _)
Walk(order, keep, entry) ==
    IF order = <<>> THEN <<>>
    ELSE (IF Head(order) \in keep THEN <<entry[Head(order)]>> ELSE <<>>)
            \o Walk(Tail(order), keep, entry)

VoiceMetadata(vs, id) ==
    [id |-> id, has_transcription |-> vs[id].has_transcription,
     created_at |-> vs[id].created_at]

\* list_generations as the sequence it returns for a directory walk in the
\* given order, when it returns.
GenListing(gs, id) ==
    [id |-> id, voice_id |-> gs[id].voice_id, model |-> gs[id].model,
     created_at |-> gs[id].created_at]
list_generations_sorted(gs, voice_id, order) ==
    sorted_reverse(Walk(order,
                        {id \in DOMAIN gs : gs[id].meta = "ok"
                            /\ (voice_id = None \/ gs[id].voice_id = voice_id[1])},
                        [id \in DOMAIN gs |-> GenListing(gs, id)]))

\* list_voices: containers without metadata.json are passed over; json.loads
\* raises on a metadata.json that holds no document, and the call with it.
list_voices_raises(vs) == \E id \in DOMAIN vs : vs[id].meta = "partial"
list_voices(vs, order) ==
    sorted_reverse(Walk(order, {id \in DOMAIN vs : vs[id].meta = "ok"},
                        [id \in DOMAIN vs |-> VoiceMetadata(vs, id)]))

\* ------------------------------------------------- the synthesis backends
\* One call of a backend method, taken whole: `b` is the instance after the
\* call, `raised` the type of the exception that left it, `loads` the
\* number of times mlx_audio's load_model was entered.
NoModel == [_model |-> None, _current_model_name |-> None]

list_available_models(platform) == {catalog[i] : i \in 1..Len(catalog)}

\* MLXBackend.load_model; `ok` is whether mlx_audio's load_model returns.
mlx_load_model_unchecked(b, model_name, ok) ==
    IF b._current_model_name # Some(model_name)
    THEN IF ok
         THEN [b |-> [_model |-> Some(model_name),
                      _current_model_name |-> Some(model_name)],
               raised |-> None, loads |-> 1]
         ELSE [b |-> b, raised |-> Some("Exception"), loads |-> 1]
    ELSE [b |-> b, raised |-> None, loads |-> 0]
mlx_load_model(b, model_name, ok) ==
    IF model_name \notin list_available_models("mlx")
    THEN [b |-> b, raised |-> Some("ValueError"), loads |-> 0]
    ELSE IF b._current_model_name # Some(model_name)
    THEN IF ok
         THEN [b |-> [_model |-> Some(model_name),
                      _current_model_name |-> Some(model_name)],
               raised |-> None, loads |-> 1]
         ELSE [b |-> b, raised |-> Some("Exception"), loads |-> 1]
    ELSE [b |-> b, raised |-> None, loads |-> 0]

\* PyTorchBackend.load_model
pytorch_load_model_loads(b, model_name) ==
    IF model_name \notin list_available_models("pytorch")
    THEN [b |-> b, raised |-> Some("ValueError"), loads |-> 0]
    ELSE [b |-> [b EXCEPT !._model = Some(model_name)], raised |-> None, loads |-> 1]
pytorch_load_model(b, model_name) ==
    IF model_name \notin list_available_models("pytorch")
    THEN [b |-> b, raised |-> Some("ValueError"), loads |-> 0]
    ELSE [b |-> b, raised |-> Some("NotImplementedError"), loads |-> 0]

load_model(platform, b, model_name, ok) ==
    IF platform = "mlx" THEN mlx_load_model(b, model_name, ok)
    ELSE pytorch_load_model(b, model_name)

is_model_loaded(b) == b._model # None

\* MLXBackend.unload_model
unload_model(b) == IF b._model # None THEN NoModel ELSE b

\* backend.generate, taken whole: `raised` is the exception that left it
\* (None when it returns), `callbacks` the number of progress_callback
\* calls it made, `samples` the length of the array it returned. `out` is
\* what happens inside MLXBackend.generate's try block: load_audio raises,
\* the model raises, yields nothing, or yields n samples.
GenOutcomes == {"load_audio", "raise", "no_results", "samples"}
GenFailed(k) ==
    [raised |-> Some("RuntimeError: TTS generation failed"), callbacks |-> k,
     samples |-> None]
mlx_generate_unguarded(b, out, n) ==
    IF b._model = None \/ out = "load_audio" THEN GenFailed(1)
    ELSE IF out \in {"raise", "no_results"} THEN GenFailed(3)
    ELSE IF n = 0 THEN GenFailed(4)
    ELSE [raised |-> None, callbacks |-> 5, samples |-> Some(n)]
mlx_generate(b, out, n) ==
    IF b._model = None
    THEN [raised |-> Some("RuntimeError: No model loaded"), callbacks |-> 0,
          samples |-> None]
    ELSE IF out = "load_audio" THEN GenFailed(1)
    ELSE IF out \in {"raise", "no_results"} THEN GenFailed(3)
    ELSE IF n = 0 THEN GenFailed(4)
    ELSE [raised |-> None, callbacks |-> 5, samples |-> Some(n)]
pytorch_generate(b) ==
    [raised |-> Some("NotImplementedError"), callbacks |-> 0, samples |-> None]
generate(platform, b, out, n) ==
    IF platform = "mlx" THEN mlx_generate(b, out, n) ELSE pytorch_generate(b)

\* TTSService.initialize on the service `svc` whose backend, once made, is
\* the instance `inst` in state `b`.
initialize_last(platform, svc, inst, b, model_name, ok) ==
    LET made == [svc EXCEPT !.backend = inst]
        name == IF model_name = None THEN catalog[Len(catalog)] ELSE model_name[1]
        r == load_model(platform, b, name, ok)
    IN IF model_name = None /\ Len(catalog) = 0
       THEN [svc |-> made, b |-> b,
             raised |-> Some("RuntimeError: No models available"), loads |-> 0]
       ELSE IF r.raised # None
       THEN [svc |-> made, b |-> r.b, raised |-> r.raised, loads |-> r.loads]
       ELSE [svc |-> [made EXCEPT !.current_model = Some(name)], b |-> r.b,
             raised |-> None, loads |-> r.loads]
initialize(platform, svc, inst, b, model_name, ok) ==
    LET made == [svc EXCEPT !.backend = inst]
        name == IF model_name = None THEN catalog[1] ELSE model_name[1]
        r == load_model(platform, b, name, ok)
    IN IF model_name = None /\ Len(catalog) = 0
       THEN [svc |-> made, b |-> b,
             raised |-> Some("RuntimeError: No models available"), loads |-> 0]
       ELSE IF r.raised # None
       THEN [svc |-> made, b |-> r.b, raised |-> r.raised, loads |-> r.loads]
       ELSE [svc |-> [made EXCEPT !.current_model = Some(name)], b |-> r.b,
             raised |-> None, loads |-> r.loads]

\* TTSService.generate on the service `svc`, taken whole. `exists` is
\* whether ref_audio_path is a file; `invoked` is whether backend.generate
\* was called, `used` the model resident in the instance when it was.
NotSynthesized(svc, b, raised, loads) ==
    [svc |-> svc, b |-> b, raised |-> raised, loads |-> loads,
     invoked |-> FALSE, callbacks |-> 0, samples |-> None, used |-> None]
tts_generate_noinit(platform, svc, inst, b, exists, ok, out, n) ==
    LET r == generate(platform, b, out, n)
    IN IF ~exists
       THEN NotSynthesized([svc EXCEPT !.backend = inst], b,
                           Some("FileNotFoundError"), 0)
       ELSE [svc |-> [svc EXCEPT !.backend = inst], b |-> b, raised |-> r.raised,
             loads |-> 0, invoked |-> TRUE, callbacks |-> r.callbacks,
             samples |-> r.samples, used |-> b._model]
tts_generate(platform, svc, inst, b, exists, ok, out, n) ==
    LET needed == svc.backend = 0 \/ ~is_model_loaded(b)
        i == IF needed
             THEN initialize(platform, svc, inst, b, None, ok)
             ELSE [svc |-> svc, b |-> b, raised |-> None, loads |-> 0]
        r == generate(platform, i.b, out, n)
    IN IF i.raised # None
       THEN NotSynthesized(i.svc, i.b, i.raised, i.loads)
       ELSE IF ~exists
       THEN NotSynthesized(i.svc, i.b, Some("FileNotFoundError"), i.loads)
       ELSE [svc |-> i.svc, b |-> i.b, raised |-> r.raised, loads |-> i.loads,
             invoked |-> TRUE, callbacks |-> r.callbacks, samples |-> r.samples,
             used |-> i.b._model]

\* ------------------------------------------------------------------ state
VARIABLES
    tasks,      \* progress_tracker._tasks: tracked id -> task record
    bg,         \* per task id, the frame of its background pipeline thread
    nextTask,   \* the next fresh task id (uuid4)
    tts,        \* tts_service: [backend, current_model]; backend 0 is None
    backend,    \* the backend instances: id -> [_model, _current_model_name]
    variant,    \* config.BACKEND
    voices,     \* the voices directory
    gens,       \* the generations directory
    nextGen,    \* the next fresh generation id (uuid4)
    response    \* what the most recent handler or tracker call returned

vars == <<tasks, bg, nextTask, tts, backend, variant, voices, gens, nextGen, response,
          now, catalog>>

NoCall ==
    [op |-> "none", status |-> None, progress |-> None,
     message |-> None, result |-> None, error |-> None]

NoResult == [id |-> 0, voice_id |-> "", model |-> ""]

IdleFrame ==
    [pc |-> "idle",       \* position in _generate_speech_background
     call |-> NoCall,     \* the tracker call in flight
     step |-> 0,          \* stores of that call already done
     ret |-> "",          \* position after the call returns
     model |-> None,      \* the request's model
     voice |-> "",        \* the request's voice_id
     arg |-> None,        \* model_name argument of the initialize() in progress
     name |-> "",         \* model_name once resolved
     initret |-> "",      \* position after initialize() returns
     b |-> 0,             \* the backend instance whose method is running
     exc |-> None,        \* str(e) of the exception being handled
     n |-> 0,             \* len(audio_data)
     gid |-> 0,           \* generation_id inside create_generation
     used |-> None,       \* the resident model that synthesized the samples
     meta |-> NoResult,   \* generation_metadata
     escaped |-> FALSE]   \* an exception left _generate_speech_background

LoopInstance == MaxTasks + 1
BackendIds == TaskIds \cup {LoopInstance}

NoResponse == [kind |-> "none", code |-> 0, id |-> 0, task |-> None]

\* Everything but the configured catalog.
Boot ==
    /\ tasks = << >>
    /\ bg = [t \in TaskIds |-> IdleFrame]
    /\ nextTask = 1
    /\ tts = [backend |-> 0, current_model |-> None]
    \* an instance exists once it has been constructed; instance t is the one
    \* the thread of task t constructs, LoopInstance the event loop's
    /\ backend = [b \in BackendIds |-> [_model |-> None, _current_model_name |-> None]]
    /\ variant \in Variants
    \* the store is durable: v1 was uploaded with a transcription, v2 without
    /\ voices = [v \in {"v1", "v2"} |->
                    [audio |-> TRUE, wav |-> WavData, meta |-> "ok",
                     transcription |-> IF v = "v1" THEN Some(<<"h", "o", "l", "a">>) ELSE None,
                     has_transcription |-> (v = "v1"), created_at |-> isoformat(0)]]
    /\ gens = << >>
    /\ nextGen = 1
    /\ response = NoResponse
    /\ now = 0

\* The shipped configuration.
Init == Boot /\ catalog = Catalog


\* ------------------------------------------- the pipeline thread: helpers
\* Positions inside backend.generate's own try block, whose handler re-raises
\* RuntimeError("TTS generation failed: " + str(e)).
InBackendGenerate(f) ==
    \/ f.pc \in {"ref_audio", "prep", "synth", "validate"}
    \/ f.pc = "call" /\ f.ret \in {"ref_audio", "prep", "synth", "validate", "gen_done"}

\* The frame after an exception with text msg is raised at the frame's
\* position: inside the pipeline's try block control moves to its handler;
\* inside the handler (the fail_task call) nothing catches it.
Raise(f, msg) ==
    IF f.pc = "call" /\ f.call.op = "fail_task"
    THEN [f EXCEPT !.pc = "done", !.call = NoCall, !.step = 0, !.escaped = TRUE]
    ELSE [f EXCEPT !.pc = "except", !.call = NoCall, !.step = 0,
                   !.exc = Some(IF InBackendGenerate(f)
                                THEN "TTS generation failed: " \o msg
                                ELSE msg)]

\* Entering a tracker method: its first statement, the membership test
\* `if task_id not in self._tasks: return`, runs now.
BeginCall(f, reg, task_id, call, ret) ==
    IF task_id \in DOMAIN reg
    THEN [f EXCEPT !.pc = "call", !.call = call, !.step = 0, !.ret = ret]
    ELSE [f EXCEPT !.pc = ret, !.call = NoCall, !.step = 0]

\* generation_progress(current, total, message) of the pipeline.
generation_progress_unscaled(current, total, message) ==
    UpdateCall(Some(GENERATING), Some((current * 40) \div total), Some(message))
generation_progress(current, total, message) ==
    UpdateCall(Some(GENERATING), Some(30 + ((current * 40) \div total)), Some(message))

\* The update_progress calls of the pipeline, in program order, and the
\* progress_callback calls of MLXBackend.generate.
InitializingUpdate ==
    UpdateCall(Some(INITIALIZING), Some(10), Some("Initializing TTS model..."))
GeneratingUpdate_pending ==
    UpdateCall(Some(PENDING), Some(30),
               Some("Generating speech (this may take 1-3 minutes)..."))
GeneratingUpdate ==
    UpdateCall(Some(GENERATING), Some(30),
               Some("Generating speech (this may take 1-3 minutes)..."))
StageMessages ==
    <<"Loading reference audio...", "Preparing generation...",
      "Generating audio (this may take 1-3 minutes)...", "Processing audio...",
      "Complete">>
StageUpdate(i) == generation_progress(i, Len(StageMessages), StageMessages[i])
ProcessingUpdate == UpdateCall(Some(PROCESSING), Some(80), Some("Processing audio..."))
SavingUpdate == UpdateCall(Some(PROCESSING), Some(90), Some("Saving audio file..."))
StartDescription == "Starting TTS generation..."

\* --------------------------------------------- the pipeline thread: steps
\* `task = self._tasks[task_id]` followed by the method's first store. The
\* lookup raises KeyError when the record was deleted after the membership
\* test.
TrackerLookup(t) ==
    /\ bg[t].pc = "call" /\ bg[t].step = 0
    /\ IF t \in DOMAIN tasks
       THEN /\ tasks' = [tasks EXCEPT ![t] = Store(bg[t].call, 1, tasks[t])]
            /\ bg' = [bg EXCEPT ![t].step = 1]
       ELSE /\ bg' = [bg EXCEPT ![t] = Raise(bg[t], "KeyError")]
            /\ UNCHANGED tasks
    /\ response' = NoResponse
    /\ UNCHANGED <<nextTask, tts, backend, variant, voices, gens, nextGen>>
    /\ UNCHANGED <<now, catalog>>

\* The next store of the method through the reference `task`; once the
\* record has been popped from the registry the store no longer shows there.
TrackerStore(t) ==
    /\ bg[t].pc = "call" /\ bg[t].step >= 1
    /\ LET k == bg[t].step + 1
           last == k = NumStores(bg[t].call)
       IN /\ tasks' = IF t \in DOMAIN tasks
                      THEN [tasks EXCEPT ![t] = Store(bg[t].call, k, tasks[t])]
                      ELSE tasks
          /\ bg' = [bg EXCEPT ![t] =
                      IF last
                      THEN [bg[t] EXCEPT !.pc = bg[t].ret, !.call = NoCall, !.step = 0]
                      ELSE [bg[t] EXCEPT !.step = k]]
    /\ response' = NoResponse
    /\ UNCHANGED <<nextTask, tts, backend, variant, voices, gens, nextGen>>
    /\ UNCHANGED <<now, catalog>>

\* update_progress(INITIALIZING, 10), then tts_service.initialize(model).
Start(t) ==
    /\ bg[t].pc = "start"
    /\ bg' = [bg EXCEPT ![t] =
                [BeginCall(bg[t], tasks, t, InitializingUpdate, "init")
                 EXCEPT !.arg = bg[t].model, !.initret = "after_init"]]
    /\ response' = NoResponse
    /\ UNCHANGED <<tasks, nextTask, tts, backend, variant, voices, gens, nextGen>>
    /\ UNCHANGED <<now, catalog>>

\* TTSService.initialize: `if self.backend is None`.
InitCheckBackend(t) ==
    /\ bg[t].pc = "init"
    /\ bg' = [bg EXCEPT ![t].pc = IF tts.backend = 0 THEN "mk_backend" ELSE "resolve"]
    /\ response' = NoResponse
    /\ UNCHANGED <<tasks, nextTask, tts, backend, variant, voices, gens, nextGen>>
    /\ UNCHANGED <<now, catalog>>

\* `self.backend = get_tts_backend()`: a fresh instance replaces whatever the
\* attribute holds by now.
InitMakeBackend(t) ==
    /\ bg[t].pc = "mk_backend"
    /\ tts' = [tts EXCEPT !.backend = t]
    /\ bg' = [bg EXCEPT ![t].pc = "resolve"]
    /\ response' = NoResponse
    /\ UNCHANGED <<tasks, nextTask, backend, variant, voices, gens, nextGen>>
    /\ UNCHANGED <<now, catalog>>

\* The default model name, then backend.load_model up to its comparison with
\* _current_model_name.
InitResolve(t) ==
    /\ bg[t].pc = "resolve"
    /\ LET f == bg[t]
           inst == tts.backend
           name == IF f.arg = None THEN catalog[1] ELSE f.arg[1]
           g == [f EXCEPT !.name = name, !.b = inst]
       IN bg' = [bg EXCEPT ![t] =
                   IF f.arg = None /\ Len(catalog) = 0
                   THEN Raise(f, "No models available for this backend")
                   ELSE IF name \notin list_available_models(variant)
                   THEN Raise(g, "Model not available")
                   ELSE IF variant = "pytorch"
                   THEN Raise(g, "PyTorch backend not yet implemented")
                   ELSE IF backend[inst]._current_model_name # Some(name)
                   THEN [g EXCEPT !.pc = "load"]
                   ELSE [g EXCEPT !.pc = "set_current"]]
    /\ response' = NoResponse
    /\ UNCHANGED <<tasks, nextTask, tts, backend, variant, voices, gens, nextGen>>
    /\ UNCHANGED <<now, catalog>>

\* `self._model = load_model(model_path=model_name)`: the download or the
\* load may fail.
InitLoad(t) ==
    /\ bg[t].pc = "load"
    /\ \E ok \in BOOLEAN :
         IF ok
         THEN /\ backend' = [backend EXCEPT ![bg[t].b]._model = Some(bg[t].name)]
              /\ bg' = [bg EXCEPT ![t].pc = "set_name"]
         ELSE /\ bg' = [bg EXCEPT ![t] = Raise(bg[t], "load_model failed")]
              /\ UNCHANGED backend
    /\ response' = NoResponse
    /\ UNCHANGED <<tasks, nextTask, tts, variant, voices, gens, nextGen>>
    /\ UNCHANGED <<now, catalog>>

\* `self._current_model_name = model_name`.
InitSetName(t) ==
    /\ bg[t].pc = "set_name"
    /\ backend' = [backend EXCEPT ![bg[t].b]._current_model_name = Some(bg[t].name)]
    /\ bg' = [bg EXCEPT ![t].pc = "set_current"]
    /\ response' = NoResponse
    /\ UNCHANGED <<tasks, nextTask, tts, variant, voices, gens, nextGen>>
    /\ UNCHANGED <<now, catalog>>

\* `self.current_model = model_name`; initialize returns.
InitSetCurrent(t) ==
    /\ bg[t].pc = "set_current"
    /\ tts' = [tts EXCEPT !.current_model = Some(bg[t].name)]
    /\ bg' = [bg EXCEPT ![t].pc = bg[t].initret]
    /\ response' = NoResponse
    /\ UNCHANGED <<tasks, nextTask, backend, variant, voices, gens, nextGen>>
    /\ UNCHANGED <<now, catalog>>

\* update_progress(GENERATING, 30), then tts_service.generate is called.
AfterInit(t) ==
    /\ bg[t].pc = "after_init"
    /\ bg' = [bg EXCEPT ![t] =
                BeginCall(bg[t], tasks, t, GeneratingUpdate, "gen")]
    /\ response' = NoResponse
    /\ UNCHANGED <<tasks, nextTask, tts, backend, variant, voices, gens, nextGen>>
    /\ UNCHANGED <<now, catalog>>

\* TTSService.generate: `if self.backend is None or not
\* self.backend.is_model_loaded(): self.initialize()`.
GenCheckLoaded(t) ==
    /\ bg[t].pc = "gen"
    /\ bg' = [bg EXCEPT ![t] =
                IF tts.backend = 0 \/ backend[tts.backend]._model = None
                THEN [bg[t] EXCEPT !.pc = "init", !.arg = None, !.initret = "gen_path"]
                ELSE [bg[t] EXCEPT !.pc = "gen_path"]]
    /\ response' = NoResponse
    /\ UNCHANGED <<tasks, nextTask, tts, backend, variant, voices, gens, nextGen>>
    /\ UNCHANGED <<now, catalog>>


\* TTSService.generate without `if not ref_audio_path.exists()` (used
\* against C34).
GenCheckPath_unchecked(t) ==
    /\ bg[t].pc = "gen_path"
    /\ LET f == [bg[t] EXCEPT !.b = tts.backend]
       IN bg' = [bg EXCEPT ![t] =
                   IF variant = "pytorch"
                   THEN Raise(f, "PyTorch backend not yet implemented")
                   ELSE IF backend[f.b]._model = None
                   THEN Raise(f, "No model loaded. Call load_model() first.")
                   ELSE BeginCall(f, tasks, t, StageUpdate(1), "ref_audio")]
    /\ response' = NoResponse
    /\ UNCHANGED <<tasks, nextTask, tts, backend, variant, voices, gens, nextGen>>
    /\ UNCHANGED <<now, catalog>>

\* The reference audio must exist; then backend.generate starts: it needs a
\* resident model and reports stage 1 of 5.
GenCheckPath(t) ==
    /\ bg[t].pc = "gen_path"
    /\ LET f == [bg[t] EXCEPT !.b = tts.backend]
       IN bg' = [bg EXCEPT ![t] =
                   IF ~get_voice_audio_path(voices, f.voice)
                   THEN Raise(f, "Reference audio not found")
                   ELSE IF variant = "pytorch"
                   THEN Raise(f, "PyTorch backend not yet implemented")
                   ELSE IF backend[f.b]._model = None
                   THEN Raise(f, "No model loaded. Call load_model() first.")
                   ELSE BeginCall(f, tasks, t, StageUpdate(1), "ref_audio")]
    /\ response' = NoResponse
    /\ UNCHANGED <<tasks, nextTask, tts, backend, variant, voices, gens, nextGen>>
    /\ UNCHANGED <<now, catalog>>

\* load_audio(ref_audio_path), then stage 2 of 5.
GenLoadAudio(t) ==
    /\ bg[t].pc = "ref_audio"
    /\ bg' = [bg EXCEPT ![t] =
                IF ~get_voice_audio_path(voices, bg[t].voice)
                THEN Raise(bg[t], "load_audio failed")
                ELSE BeginCall(bg[t], tasks, t, StageUpdate(2), "prep")]
    /\ response' = NoResponse
    /\ UNCHANGED <<tasks, nextTask, tts, backend, variant, voices, gens, nextGen>>
    /\ UNCHANGED <<now, catalog>>

\* Stage 3 of 5.
GenPrepare(t) ==
    /\ bg[t].pc = "prep"
    /\ bg' = [bg EXCEPT ![t] =
                BeginCall(bg[t], tasks, t, StageUpdate(3), "synth")]
    /\ response' = NoResponse
    /\ UNCHANGED <<tasks, nextTask, tts, backend, variant, voices, gens, nextGen>>
    /\ UNCHANGED <<now, catalog>>

\* `results = list(self._model.generate(...))` with whatever model the
\* instance holds now: it raises, yields nothing, or yields n samples. Then
\* stage 4 of 5.
GenSynthesize(t) ==
    /\ bg[t].pc = "synth"
    /\ \E out \in {"raise", "no_results", "samples"}, n \in 0..MaxSamples :
         bg' = [bg EXCEPT ![t] =
                  IF out = "raise"
                  THEN Raise(bg[t], "model.generate failed")
                  ELSE IF out = "no_results"
                  THEN Raise(bg[t], "Model did not generate any audio")
                  ELSE BeginCall([bg[t] EXCEPT !.n = n,
                                               !.used = backend[bg[t].b]._model],
                                 tasks, t, StageUpdate(4), "validate")]
    /\ response' = NoResponse
    /\ UNCHANGED <<tasks, nextTask, tts, backend, variant, voices, gens, nextGen>>
    /\ UNCHANGED <<now, catalog>>

\* The backend's own empty-output check, then stage 5 of 5.
GenValidate(t) ==
    /\ bg[t].pc = "validate"
    /\ bg' = [bg EXCEPT ![t] =
                IF bg[t].n = 0
                THEN Raise(bg[t], "Generated audio is empty")
                ELSE BeginCall(bg[t], tasks, t, StageUpdate(5), "gen_done")]
    /\ response' = NoResponse
    /\ UNCHANGED <<tasks, nextTask, tts, backend, variant, voices, gens, nextGen>>
    /\ UNCHANGED <<now, catalog>>

\* Back in the pipeline: its empty-output check, update_progress(PROCESSING, 80).
AfterGenerate(t) ==
    /\ bg[t].pc = "gen_done"
    /\ bg' = [bg EXCEPT ![t] =
                IF bg[t].n = 0
                THEN Raise(bg[t], "TTS generation produced no audio data")
                ELSE BeginCall(bg[t], tasks, t, ProcessingUpdate, "wav")]
    /\ response' = NoResponse
    /\ UNCHANGED <<tasks, nextTask, tts, backend, variant, voices, gens, nextGen>>
    /\ UNCHANGED <<now, catalog>>

\* audio_to_wav_bytes (wavfile.write may fail), the encoded-size check,
\* update_progress(PROCESSING, 90).
EncodeWav(t) ==
    /\ bg[t].pc = "wav"
    /\ \E ok \in BOOLEAN :
         bg' = [bg EXCEPT ![t] =
                  IF ~ok
                  THEN Raise(bg[t], "wavfile.write failed")
                  ELSE IF audio_to_wav_bytes(bg[t].n) < WavHeaderBytes
                  THEN Raise(bg[t], "Audio conversion produced invalid WAV data")
                  ELSE BeginCall(bg[t], tasks, t, SavingUpdate, "save")]
    /\ response' = NoResponse
    /\ UNCHANGED <<tasks, nextTask, tts, backend, variant, voices, gens, nextGen>>
    /\ UNCHANGED <<now, catalog>>

\* create_generation(model=tts_service.current_model or "unknown"): the model
\* argument is read now; a fresh id, then gen_dir.mkdir.
SaveMkdir(t) ==
    /\ bg[t].pc = "save"
    /\ nextGen <= MaxGens
    /\ LET model == IF tts.current_model = None THEN "unknown" ELSE tts.current_model[1]
           f == [bg[t] EXCEPT !.gid = nextGen,
                              !.meta = [id |-> nextGen, voice_id |-> bg[t].voice,
                                        model |-> model]]
       IN \E ok \in BOOLEAN :
            IF ok
            THEN /\ gens' = create_generation_mkdir(gens, nextGen)
                 /\ bg' = [bg EXCEPT ![t] = [f EXCEPT !.pc = "save_audio"]]
            ELSE /\ bg' = [bg EXCEPT ![t] = Raise(f, "mkdir failed")]
                 /\ UNCHANGED gens
    /\ nextGen' = nextGen + 1
    /\ response' = NoResponse
    /\ UNCHANGED <<tasks, nextTask, tts, backend, variant, voices>>
    /\ UNCHANGED <<now, catalog>>

\* audio_path.write_bytes(audio_data).
SaveAudio(t) ==
    /\ bg[t].pc = "save_audio"
    /\ \E ok \in BOOLEAN :
         IF ok
         THEN /\ gens' = create_generation_audio(gens, bg[t].gid)
              /\ bg' = [bg EXCEPT ![t].pc = "save_open"]
         ELSE /\ bg' = [bg EXCEPT ![t] = Raise(bg[t], "write_bytes failed")]
              /\ UNCHANGED gens
    /\ response' = NoResponse
    /\ UNCHANGED <<tasks, nextTask, tts, backend, variant, voices, nextGen>>
    /\ UNCHANGED <<now, catalog>>

\* meta_path.write_text: the file is created.
SaveOpenMeta(t) ==
    /\ bg[t].pc = "save_open"
    /\ \E ok \in BOOLEAN :
         IF ok
         THEN /\ gens' = create_generation_open(gens, bg[t].gid)
              /\ bg' = [bg EXCEPT ![t].pc = "save_meta"]
         ELSE /\ bg' = [bg EXCEPT ![t] = Raise(bg[t], "open failed")]
              /\ UNCHANGED gens
    /\ response' = NoResponse
    /\ UNCHANGED <<tasks, nextTask, tts, backend, variant, voices, nextGen>>
    /\ UNCHANGED <<now, catalog>>

\* meta_path.write_text: the record is written; create_generation returns.
SaveWriteMeta(t) ==
    /\ bg[t].pc = "save_meta"
    /\ \E ok \in BOOLEAN :
         IF ok
         THEN /\ gens' = create_generation_meta(gens, bg[t].gid, bg[t].meta.voice_id,
                                                bg[t].meta.model)
              /\ bg' = [bg EXCEPT ![t].pc = "complete"]
         ELSE /\ bg' = [bg EXCEPT ![t] = Raise(bg[t], "write_text failed")]
              /\ UNCHANGED gens
    /\ response' = NoResponse
    /\ UNCHANGED <<tasks, nextTask, tts, backend, variant, voices, nextGen>>
    /\ UNCHANGED <<now, catalog>>

\* progress_tracker.complete_task(task_id, generation_metadata).
Complete(t) ==
    /\ bg[t].pc = "complete"
    /\ bg' = [bg EXCEPT ![t] =
                BeginCall(bg[t], tasks, t, CompleteCall(bg[t].meta), "done")]
    /\ response' = NoResponse
    /\ UNCHANGED <<tasks, nextTask, tts, backend, variant, voices, gens, nextGen>>
    /\ UNCHANGED <<now, catalog>>

\* `except Exception as e: progress_tracker.fail_task(task_id, str(e))`.
Except(t) ==
    /\ bg[t].pc = "except"
    /\ bg' = [bg EXCEPT ![t] =
                BeginCall(bg[t], tasks, t, FailCall(bg[t].exc[1]), "done")]
    /\ response' = NoResponse
    /\ UNCHANGED <<tasks, nextTask, tts, backend, variant, voices, gens, nextGen>>
    /\ UNCHANGED <<now, catalog>>

ThreadStep(t) ==
    \/ Start(t) \/ TrackerLookup(t) \/ TrackerStore(t)
    \/ InitCheckBackend(t) \/ InitMakeBackend(t) \/ InitResolve(t)
    \/ InitLoad(t) \/ InitSetName(t) \/ InitSetCurrent(t)
    \/ AfterInit(t) \/ GenCheckLoaded(t) \/ GenCheckPath(t) \/ GenLoadAudio(t)
    \/ GenPrepare(t) \/ GenSynthesize(t) \/ GenValidate(t) \/ AfterGenerate(t)
    \/ EncodeWav(t) \/ SaveMkdir(t) \/ SaveAudio(t) \/ SaveOpenMeta(t)
    \/ SaveWriteMeta(t) \/ Complete(t) \/ Except(t)


\* ------------------------------------------------ HTTP handlers (Spec)
\* The handlers are coroutines without an await in their bodies: the event
\* loop runs each to its end, while the pipeline threads keep running.

\* The handler scheduling the pipeline without create_task (used against
\* C38).
GenerateSpeechAsync_unrecorded(voice_id, model) ==
    /\ ~get_voice_raises(voices, voice_id)
    /\ get_voice(voices, voice_id) /\ get_voice_audio_path(voices, voice_id)
    /\ get_voice_transcription(voices, voice_id) \notin {None, Some(<<>>)}
    /\ nextTask <= MaxTasks
    /\ bg' = [bg EXCEPT ![nextTask] =
                [IdleFrame EXCEPT !.pc = "start", !.model = model, !.voice = voice_id]]
    /\ nextTask' = nextTask + 1
    /\ response' = [kind |-> "generate_async", code |-> 202, id |-> nextTask,
                    task |-> None]
    /\ UNCHANGED <<tasks, tts, backend, variant, voices, gens, nextGen, now, catalog>>

\* POST /api/generations/async
GenerateSpeechAsync(voice_id, model) ==
    /\ UNCHANGED <<now, catalog>>
    /\ IF get_voice_raises(voices, voice_id)
       THEN /\ response' = [kind |-> "generate_async", code |-> 500, id |-> 0, task |-> None]
            /\ UNCHANGED <<tasks, bg, nextTask, tts, backend, variant, voices, gens, nextGen>>
       ELSE IF ~get_voice(voices, voice_id) \/ ~get_voice_audio_path(voices, voice_id)
       THEN /\ response' = [kind |-> "generate_async", code |-> 404, id |-> 0, task |-> None]
            /\ UNCHANGED <<tasks, bg, nextTask, tts, backend, variant, voices, gens, nextGen>>
       ELSE IF get_voice_transcription(voices, voice_id) \in {None, Some(<<>>)}
       THEN /\ response' = [kind |-> "generate_async", code |-> 400, id |-> 0, task |-> None]
            /\ UNCHANGED <<tasks, bg, nextTask, tts, backend, variant, voices, gens, nextGen>>
       ELSE /\ nextTask <= MaxTasks
            /\ tasks' = create_task(tasks, nextTask, StartDescription)
            /\ bg' = [bg EXCEPT ![nextTask] =
                        [IdleFrame EXCEPT !.pc = "start", !.model = model, !.voice = voice_id]]
            /\ nextTask' = nextTask + 1
            /\ response' = [kind |-> "generate_async", code |-> 202, id |-> nextTask,
                            task |-> None]
            /\ UNCHANGED <<tts, backend, variant, voices, gens, nextGen>>

\* create_generation as far as its k-th filesystem operation: mkdir, the
\* audio blob, the creation of metadata.json, its content.
create_generation_upto(gs, k, id, voice_id, model) ==
    CASE k = 0 -> gs
      [] k = 1 -> create_generation_mkdir(gs, id)
      [] k = 2 -> create_generation_audio(create_generation_mkdir(gs, id), id)
      [] k = 3 -> create_generation_open(
                      create_generation_audio(create_generation_mkdir(gs, id), id), id)
      [] k = 4 -> create_generation_meta(
                      create_generation_audio(create_generation_mkdir(gs, id), id),
                      id, voice_id, model)

\* POST /api/generations and /api/generations/sync. The handler blocks the
\* event loop until it returns; it is taken here in one step, the schedule
\* in which no pipeline thread runs while it does. `fail` is the place
\* where a call raises, if one does: the model load, the synthesis, or the
\* last write of create_generation.
SyncFailures == {"load_model", "generate", "write_text"}

GenerateSpeech(voice_id, model) ==
    /\ UNCHANGED <<now, catalog>>
    /\ IF get_voice_raises(voices, voice_id)
       THEN /\ response' = [kind |-> "generate", code |-> 500, id |-> 0, task |-> None]
            /\ UNCHANGED <<tasks, bg, nextTask, tts, backend, variant, voices, gens, nextGen>>
       ELSE IF ~get_voice(voices, voice_id) \/ ~get_voice_audio_path(voices, voice_id)
       THEN /\ response' = [kind |-> "generate", code |-> 404, id |-> 0, task |-> None]
            /\ UNCHANGED <<tasks, bg, nextTask, tts, backend, variant, voices, gens, nextGen>>
       ELSE IF get_voice_transcription(voices, voice_id) \in {None, Some(<<>>)}
       THEN /\ response' = [kind |-> "generate", code |-> 400, id |-> 0, task |-> None]
            /\ UNCHANGED <<tasks, bg, nextTask, tts, backend, variant, voices, gens, nextGen>>
       ELSE
         LET inst == IF tts.backend = 0 THEN LoopInstance ELSE tts.backend
             name == IF model = None THEN catalog[1] ELSE model[1]
             loaded == [backend EXCEPT ![inst] =
                           [_model |-> Some(name), _current_model_name |-> Some(name)]]
             failed == [kind |-> "generate", code |-> 500, id |-> 0, task |-> None]
         IN
         /\ UNCHANGED <<tasks, bg, nextTask, variant, voices>>
         /\ IF name \notin list_available_models(variant) \/ variant = "pytorch"
            THEN \* load_model raises: "Failed to initialize TTS model"
                 /\ tts' = [tts EXCEPT !.backend = inst]
                 /\ response' = failed
                 /\ UNCHANGED <<backend, gens, nextGen>>
            ELSE \E fail \in SyncFailures \cup {"none"} :
                 IF fail = "load_model"
                 THEN /\ backend[inst]._current_model_name # Some(name)
                      /\ tts' = [tts EXCEPT !.backend = inst]
                      /\ response' = failed
                      /\ UNCHANGED <<backend, gens, nextGen>>
                 ELSE /\ tts' = [backend |-> inst, current_model |-> Some(name)]
                      /\ backend' = IF backend[inst]._current_model_name # Some(name)
                                    THEN loaded ELSE backend
                      /\ IF fail = "generate"
                         THEN /\ response' = failed
                              /\ UNCHANGED <<gens, nextGen>>
                         ELSE /\ nextGen <= MaxGens
                              /\ nextGen' = nextGen + 1
                              /\ LET k == IF fail = "write_text" THEN 3 ELSE 4
                                 IN /\ gens' = create_generation_upto(gens, k, nextGen,
                                                                      voice_id, name)
                                    /\ response' = IF k = 4
                                                   THEN [kind |-> "generate", code |-> 201,
                                                         id |-> nextGen, task |-> None]
                                                   ELSE failed

\* GET /api/generations/tasks/{task_id}: what get_task hands to the response.
GetTaskStatus(task_id) ==
    /\ response' = [kind |-> "get_task",
                    code |-> IF get_task(tasks, task_id) = None THEN 404 ELSE 200,
                    id |-> task_id, task |-> get_task(tasks, task_id)]
    /\ UNCHANGED <<tasks, bg, nextTask, tts, backend, variant, voices, gens, nextGen>>
    /\ UNCHANGED <<now, catalog>>

\* DELETE /api/generations/tasks/{task_id}
DeleteTaskRoute(task_id) ==
    /\ IF get_task(tasks, task_id) = None
       THEN /\ response' = [kind |-> "delete_task", code |-> 404, id |-> task_id,
                            task |-> None]
            /\ UNCHANGED tasks
       ELSE /\ tasks' = delete_task(tasks, task_id)
            /\ response' = [kind |-> "delete_task", code |-> 204, id |-> task_id,
                            task |-> None]
    /\ UNCHANGED <<bg, nextTask, tts, backend, variant, voices, gens, nextGen>>
    /\ UNCHANGED <<now, catalog>>

\* DELETE /api/generations/{generation_id}. A client knows the id of a
\* generation only from a listing or a task result, so the ids tried are
\* those of listed generations and ids of no container.
DeleteGenerationRoute(generation_id) ==
    /\ generation_id \in DOMAIN gens => gens[generation_id].meta = "ok"
    /\ IF generation_id \notin DOMAIN gens
       THEN /\ response' = [kind |-> "delete_generation", code |-> 404,
                            id |-> generation_id, task |-> None]
            /\ UNCHANGED gens
       ELSE /\ gens' = delete_generation(gens, generation_id)
            /\ response' = [kind |-> "delete_generation", code |-> 204,
                            id |-> generation_id, task |-> None]
    /\ UNCHANGED <<tasks, bg, nextTask, tts, backend, variant, voices, nextGen>>
    /\ UNCHANGED <<now, catalog>>

\* The handler that would take the voice's generations with it (used
\* against C22).
DeleteVoiceRoute_cascade(voice_id) ==
    /\ voice_id \in DOMAIN voices
    /\ voices' = delete_voice(voices, voice_id)
    /\ gens' = [g \in {x \in DOMAIN gens : gens[x].voice_id # voice_id} |-> gens[g]]
    /\ response' = [kind |-> "delete_voice", code |-> 204, id |-> 0, task |-> None]
    /\ UNCHANGED <<tasks, bg, nextTask, tts, backend, variant, nextGen, now, catalog>>

\* DELETE /api/voices/{voice_id}
DeleteVoiceRoute(voice_id) ==
    /\ IF voice_id \notin DOMAIN voices
       THEN /\ response' = [kind |-> "delete_voice", code |-> 404, id |-> 0, task |-> None]
            /\ UNCHANGED voices
       ELSE /\ voices' = delete_voice(voices, voice_id)
            /\ response' = [kind |-> "delete_voice", code |-> 204, id |-> 0, task |-> None]
    /\ UNCHANGED <<tasks, bg, nextTask, tts, backend, variant, gens, nextGen>>
    /\ UNCHANGED <<now, catalog>>

Next ==
    \/ \E t \in TaskIds : ThreadStep(t)
    \/ \E v \in VoiceIds, m \in RequestModels : GenerateSpeechAsync(v, m)
    \/ \E t \in TaskIds : GetTaskStatus(t)
    \/ \E t \in TaskIds : DeleteTaskRoute(t)
    \/ \E g \in GenIds : DeleteGenerationRoute(g)
    \/ \E v \in VoiceIds : DeleteVoiceRoute(v)

Spec == Init /\ [][Next]_vars

\* The synchronous handler beside the pipeline: both drive the one
\* TTSService, and both persist generations.
MixedNext ==
    \/ \E t \in TaskIds : ThreadStep(t)
    \/ \E v \in VoiceIds, m \in RequestModels : GenerateSpeechAsync(v, m)
    \/ \E v \in VoiceIds, m \in RequestModels : GenerateSpeech(v, m)

MixedSpec == Init /\ [][MixedNext]_vars

\* The worker threads are scheduled: a thread that can take a step
\* eventually takes one.
FairSpec == Spec /\ \A t \in TaskIds : WF_vars(ThreadStep(t))

\* ------------------------------------------ the voice store (VoiceSpec)
\* Transcription texts: the empty one and one holding a Windows line break
\* (v1's is a plain one).
Texts == {<<>>, <<"a", "\r", "\n", "b">>}
Transcriptions == {None} \cup {Some(text) : text \in Texts}

\* No generation and no running request names the voice: a new voice gets
\* a fresh uuid.
FreshVoiceId(v) ==
    /\ v \notin DOMAIN voices
    /\ \A g \in DOMAIN gens : gens[g].voice_id # v
    /\ \A t \in TaskIds : bg[t].voice # v

\* POST /api/voices/ -- transcription is what the transcription service
\* returned (None when it failed or was not asked); the store call stops
\* after k filesystem operations when one of them fails.
CreateVoiceRoute(v, audio_data, conv, transcription, k) ==
    /\ FreshVoiceId(v)
    /\ k <= 1 + Len(CreateVoiceOps(transcription))
    /\ voices' = create_voice_sample_upto(voices, k, v, audio_data, conv, transcription)
    /\ response' = [kind |-> "create_voice",
                    code |-> IF k = 1 + Len(CreateVoiceOps(transcription)) THEN 201 ELSE 500,
                    id |-> 0, task |-> None]
    /\ UNCHANGED <<tasks, bg, nextTask, tts, backend, variant, gens, nextGen, now, catalog>>

\* The response of a handler that ran update_voice_transcription as far as
\* k operations and then returns get_voice's record.
UpdateVoiceCode(vs, voice_id, k) ==
    IF k < Len(UpdateVoiceOps(vs, voice_id)) \/ update_voice_transcription_raises(vs, voice_id)
    THEN 500
    ELSE IF ~update_voice_transcription_returns(vs, voice_id) THEN 404
    ELSE IF get_voice(update_voice_transcription(vs, voice_id, <<>>), voice_id) THEN 200
    ELSE 500

\* POST /api/voices/{voice_id}/transcription
UpdateVoiceTranscriptionRoute(v, text, k) ==
    /\ k <= Len(UpdateVoiceOps(voices, v))
    /\ voices' = update_voice_transcription_upto(voices, k, v, text)
    /\ response' = [kind |-> "update_voice_transcription",
                    code |-> UpdateVoiceCode(voices, v, k), id |-> 0, task |-> None]
    /\ UNCHANGED <<tasks, bg, nextTask, tts, backend, variant, gens, nextGen, now, catalog>>

\* POST /api/voices/{voice_id}/transcribe -- text is what the transcription
\* service returns; every failure is answered 500.
TranscribeVoiceRoute(v, text, k) ==
    /\ k <= Len(UpdateVoiceOps(voices, v))
    /\ IF ~get_voice_audio_path(voices, v)
       THEN /\ k = 0
            /\ response' = [kind |-> "transcribe_voice", code |-> 404, id |-> 0,
                            task |-> None]
            /\ UNCHANGED voices
       ELSE /\ voices' = update_voice_transcription_upto(voices, k, v, text)
            /\ response' = [kind |-> "transcribe_voice",
                            code |-> UpdateVoiceCode(voices, v, k), id |-> 0, task |-> None]
    /\ UNCHANGED <<tasks, bg, nextTask, tts, backend, variant, gens, nextGen, now, catalog>>

\* The requests of VoiceSpec: voices v2 and v3 are created, transcribed and
\* deleted while v1 stays as uploaded; generations are requested for every
\* voice id, with the default model; uploads are WAV files.
WrittenVoiceIds == {"v2", "v3"}
VoiceRequestModels == {None}
VoiceUploads == {WavData}

VoiceNext ==
    \/ \E v \in WrittenVoiceIds, b \in VoiceUploads, tr \in Transcriptions, k \in 0..6 :
          CreateVoiceRoute(v, b, "raise", tr, k)
    \/ \E v \in WrittenVoiceIds, text \in Texts, k \in 0..4 :
          UpdateVoiceTranscriptionRoute(v, text, k)
    \/ \E v \in WrittenVoiceIds, text \in Texts, k \in 0..4 :
          TranscribeVoiceRoute(v, text, k)
    \/ \E v \in WrittenVoiceIds : DeleteVoiceRoute(v)
    \/ \E v \in VoiceIds, m \in VoiceRequestModels : GenerateSpeechAsync(v, m)
    \/ \E v \in VoiceIds, m \in VoiceRequestModels : GenerateSpeech(v, m)

VoiceSpec == Init /\ [][VoiceNext]_vars

\* ------------------------------------------- tracker calls (TrackerSpec)
Descriptions == {StartDescription}
\* <<status, progress, message>> arguments of update_progress: each field
\* alone, nothing at all, and full updates.
UpdateArgs ==
    {<<Some(s), None, None>> : s \in TaskStatus}
    \cup {<<None, Some(p), None>> : p \in {-5, 55, 150}}
    \cup {<<None, None, Some("working")>>, <<None, None, None>>}
    \cup {<<Some(GENERATING), Some(40), Some("working")>>,
          <<Some(COMPLETED), Some(100), None>>}
Results == {[id |-> 1, voice_id |-> "v1", model |-> "m1"]}
Errors == {"boom"}

TrackerFrame ==
    UNCHANGED <<bg, nextTask, tts, backend, variant, voices, gens, nextGen, now, catalog>>

CreateTaskCall(task_id, description) ==
    /\ tasks' = create_task(tasks, task_id, description)
    /\ response' = NoResponse
    /\ TrackerFrame

UpdateProgressCall(task_id, status, progress, message) ==
    /\ tasks' = update_progress(tasks, task_id, status, progress, message)
    /\ response' = NoResponse
    /\ TrackerFrame

CompleteTaskCall(task_id, result) ==
    /\ tasks' = complete_task(tasks, task_id, result)
    /\ response' = NoResponse
    /\ TrackerFrame

FailTaskCall(task_id, error) ==
    /\ tasks' = fail_task(tasks, task_id, error)
    /\ response' = NoResponse
    /\ TrackerFrame

\* A read that drops the task it finds finished (used against C15).
GetTaskCall_evicting(task_id) ==
    /\ response' = [kind |-> "get_task",
                    code |-> IF get_task(tasks, task_id) = None THEN 404 ELSE 200,
                    id |-> task_id, task |-> get_task(tasks, task_id)]
    /\ tasks' = IF task_id \in DOMAIN tasks /\ tasks[task_id].status \in Terminal
                THEN delete_task(tasks, task_id)
                ELSE tasks
    /\ TrackerFrame

GetTaskCall(task_id) ==
    /\ response' = [kind |-> "get_task",
                    code |-> IF get_task(tasks, task_id) = None THEN 404 ELSE 200,
                    id |-> task_id, task |-> get_task(tasks, task_id)]
    /\ UNCHANGED tasks
    /\ TrackerFrame

DeleteTaskCall(task_id) ==
    /\ tasks' = delete_task(tasks, task_id)
    /\ response' = NoResponse
    /\ TrackerFrame

TrackerNext ==
    \/ \E t \in TrackerIds, d \in Descriptions : CreateTaskCall(t, d)
    \/ \E t \in TrackerIds, a \in UpdateArgs : UpdateProgressCall(t, a[1], a[2], a[3])
    \/ \E t \in TrackerIds, r \in Results : CompleteTaskCall(t, r)
    \/ \E t \in TrackerIds, e \in Errors : FailTaskCall(t, e)
    \/ \E t \in TrackerIds : GetTaskCall(t)
    \/ \E t \in TrackerIds : DeleteTaskCall(t)

\* The tracker does not depend on the platform: one variant is enough.
TrackerInit == Init /\ variant = "mlx"

TrackerSpec == TrackerInit /\ [][TrackerNext]_vars

\* ------------------------------- the tracker over time (CleanupSpec)
\* The tracker calls while the clock advances, and the sweep. Nothing in
\* the application calls cleanup_old_tasks, so it never runs beside another
\* call.
MaxTime == 3
MaxAgeHours == 1
CleanupUpdateArgs == {<<Some(GENERATING), Some(40), None>>}

Tick ==
    /\ now < MaxTime
    /\ now' = now + 1
    /\ response' = NoResponse
    /\ UNCHANGED catalog
    /\ UNCHANGED <<tasks, bg, nextTask, tts, backend, variant, voices, gens, nextGen>>

CleanupOldTasksCall(max_age_hours) ==
    /\ tasks' = cleanup_old_tasks(tasks, max_age_hours)
    /\ response' = [kind |-> "cleanup_old_tasks", code |-> 0, id |-> max_age_hours,
                    task |-> None]
    /\ TrackerFrame

CleanupNext ==
    \/ \E t \in TrackerIds, d \in Descriptions : CreateTaskCall(t, d)
    \/ \E t \in TrackerIds, a \in CleanupUpdateArgs :
          UpdateProgressCall(t, a[1], a[2], a[3])
    \/ \E t \in TrackerIds, r \in Results : CompleteTaskCall(t, r)
    \/ \E t \in TrackerIds, e \in Errors : FailTaskCall(t, e)
    \/ \E t \in TrackerIds : GetTaskCall(t)
    \/ \E h \in 0..MaxAgeHours : CleanupOldTasksCall(h)
    \/ Tick

CleanupSpec == TrackerInit /\ [][CleanupNext]_vars

\* ------------------------------- the store call by call (StoreSpec)
\* StorageService driven by its callers over time: voices are uploaded and
\* deleted, generations saved and deleted, and the clock advances.
Uploads == {WavData, WebmData, ShortData}

\* storage_service.create_generation as its callers run it: it stops after
\* k filesystem operations when one of them fails.
CreateGenerationCall(voice_id, model, k) ==
    /\ nextGen <= MaxGens
    /\ gens' = create_generation_upto(gens, k, nextGen, voice_id, model)
    /\ nextGen' = nextGen + 1
    /\ response' = [kind |-> "create_generation", code |-> IF k = 4 THEN 201 ELSE 500,
                    id |-> nextGen, task |-> None]
    /\ UNCHANGED <<tasks, bg, nextTask, tts, backend, variant, voices, now, catalog>>

StoreNext ==
    \/ \E v \in WrittenVoiceIds, b \in Uploads, conv \in ConvOutcomes :
          CreateVoiceRoute(v, b, conv, None, 4)
    \/ \E v \in WrittenVoiceIds : DeleteVoiceRoute(v)
    \/ \E v \in VoiceIds, k \in 3..4 : CreateGenerationCall(v, Catalog[1], k)
    \/ \E g \in GenIds : DeleteGenerationRoute(g)
    \/ Tick

StoreSpec == TrackerInit /\ [][StoreNext]_vars

\* ------------------------------------------- the backends, call by call
\* The backend instances and the TTSService driven one call at a time by a
\* single caller, on either platform. The response of a call holds the
\* instance in `id`, the exception it raised in `task`, and in `code` the
\* number of model loads it made (for generate, of progress callbacks).
ModelNames == CatalogSet \cup {"bad"}

\* The lists the configuration may hold: the shipped one, the same models
\* in the other order, one model, none.
Catalogs == {Catalog, <<Catalog[2], Catalog[1]>>, <<Catalog[1]>>, <<>>}
BackendInit == Boot /\ catalog \in Catalogs

\* The instance b has been constructed: the service's own instance exists
\* once get_tts_backend() has made it, the others are the caller's.
Constructed(b) == b = LoopInstance => tts.backend = b

LoadModelCall(b, model_name, ok) ==
    LET r == load_model(variant, backend[b], model_name, ok)
    IN /\ Constructed(b)
       /\ backend' = [backend EXCEPT ![b] = r.b]
       /\ response' = [kind |-> "load_model", code |-> r.loads, id |-> b,
                       task |-> r.raised]
       /\ UNCHANGED <<tasks, bg, nextTask, tts, variant, voices, gens, nextGen, now, catalog>>

GenerateCall(b, out, n) ==
    /\ Constructed(b)
    /\ LET r == generate(variant, backend[b], out, n)
       IN response' = [kind |-> "backend_generate", code |-> r.callbacks, id |-> b,
                       task |-> r.raised, samples |-> r.samples]
    /\ UNCHANGED <<tasks, bg, nextTask, tts, backend, variant, voices, gens, nextGen, now, catalog>>

\* Only MLXBackend has unload_model.
UnloadModelCall(b) ==
    /\ variant = "mlx"
    /\ Constructed(b)
    /\ backend' = [backend EXCEPT ![b] = unload_model(backend[b])]
    /\ response' = [kind |-> "unload_model", code |-> 0, id |-> b, task |-> None]
    /\ UNCHANGED <<tasks, bg, nextTask, tts, variant, voices, gens, nextGen, now, catalog>>

InitializeCall(model_name, ok) ==
    LET inst == IF tts.backend = 0 THEN LoopInstance ELSE tts.backend
        r == initialize(variant, tts, inst, backend[inst], model_name, ok)
    IN /\ tts' = r.svc
       /\ backend' = [backend EXCEPT ![inst] = r.b]
       /\ response' = [kind |-> "initialize", code |-> r.loads, id |-> inst,
                       task |-> r.raised]
       /\ UNCHANGED <<tasks, bg, nextTask, variant, voices, gens, nextGen, now, catalog>>

\* tts_service.generate called directly; the response holds also whether
\* backend.generate was invoked and the model that synthesized.
ServiceGenerateCall(exists, ok, out, n) ==
    LET inst == IF tts.backend = 0 THEN LoopInstance ELSE tts.backend
        r == tts_generate(variant, tts, inst, backend[inst], exists, ok, out, n)
    IN /\ tts' = r.svc
       /\ backend' = [backend EXCEPT ![inst] = r.b]
       /\ response' = [kind |-> "generate", code |-> r.callbacks, id |-> inst,
                       task |-> r.raised, samples |-> r.samples, loads |-> r.loads,
                       invoked |-> r.invoked, used |-> r.used]
       /\ UNCHANGED <<tasks, bg, nextTask, variant, voices, gens, nextGen, now, catalog>>

BackendNext ==
    \/ \E b \in BackendIds, m \in ModelNames, ok \in BOOLEAN : LoadModelCall(b, m, ok)
    \/ \E b \in BackendIds, out \in GenOutcomes, n \in 0..MaxSamples :
          GenerateCall(b, out, n)
    \/ \E b \in BackendIds : UnloadModelCall(b)
    \/ \E m \in RequestModels, ok \in BOOLEAN : InitializeCall(m, ok)
    \/ \E exists \in BOOLEAN, ok \in BOOLEAN, out \in GenOutcomes, n \in 0..MaxSamples :
          ServiceGenerateCall(exists, ok, out, n)

BackendSpec == BackendInit /\ [][BackendNext]_vars

\* ================================================= tracker properties

\* A step of one of the three mutating tracker methods.
TrackerMutation ==
    \/ \E t \in TrackerIds, a \in UpdateArgs : UpdateProgressCall(t, a[1], a[2], a[3])
    \/ \E t \in TrackerIds, r \in Results : CompleteTaskCall(t, r)
    \/ \E t \in TrackerIds, e \in Errors : FailTaskCall(t, e)

\* C1: once a task's status is completed or failed, no update_progress,
\* complete_task or fail_task call changes that status.
C1_TerminalStatusIsFinal ==
    [][TrackerMutation =>
         \A t \in DOMAIN tasks :
            tasks[t].status \in Terminal => tasks'[t].status = tasks[t].status]_vars

\* C2: a completed task has a result and no error, a failed task has an
\* error and no result.
C2_ResultXorError ==
    \A t \in DOMAIN tasks :
        /\ tasks[t].status = COMPLETED =>
               (tasks[t].result # None /\ tasks[t].error = None)
        /\ tasks[t].status = FAILED =>
               (tasks[t].error # None /\ tasks[t].result = None)

\* C9: complete_task on a tracked task leaves it completed, at progress
\* 100, with the payload as its result and with no error, whatever the
\* record was before.
C9_CompleteTaskPostcondition ==
    [][\A t \in TrackerIds, r \in Results :
          (CompleteTaskCall(t, r) /\ t \in DOMAIN tasks) =>
             /\ tasks'[t].status = COMPLETED
             /\ tasks'[t].progress = 100
             /\ tasks'[t].result = Some(r)
             /\ tasks'[t].error = None]_vars

\* C10: fail_task on a tracked task sets the status to failed and the error
\* to the given message, and leaves the progress as it was.
C10_FailTaskKeepsProgress ==
    [][\A t \in TrackerIds, e \in Errors :
          (FailTaskCall(t, e) /\ t \in DOMAIN tasks) =>
             /\ tasks'[t].status = FAILED
             /\ tasks'[t].error = Some(e)
             /\ tasks'[t].progress = tasks[t].progress]_vars

\* A task failed part-way: the progress it had reached is still there.
C10_Witness ==
    \E t \in DOMAIN tasks :
        /\ tasks[t].status = FAILED
        /\ tasks[t].error = Some("boom")
        /\ tasks[t].message = "Failed"
        /\ tasks[t].progress = 55

\* C11: the progress of every task is an integer in 0..100, and an
\* update_progress that writes p stores min(100, max(0, p)): 0 for -5, 100
\* for 150.
C11_ProgressClamped ==
    /\ \A t \in DOMAIN tasks : tasks[t].progress \in 0..100
    /\ \A t \in DOMAIN tasks, a \in UpdateArgs :
          a[2] # None =>
             update_progress(tasks, t, a[1], a[2], a[3])[t].progress
                = (IF a[2][1] < 0 THEN 0 ELSE IF a[2][1] > 100 THEN 100 ELSE a[2][1])

\* A task that was never completed stands at 100: 150 was written to it.
C11_Witness ==
    \E t \in DOMAIN tasks :
        /\ tasks[t].progress = 100
        /\ tasks[t].status = PENDING
        /\ tasks[t].message = StartDescription
        /\ tasks[t].result = None

\* C12: update_progress on an id that is not tracked returns with the
\* registry as it was: no record is created and none is modified.
C12_UnknownIdIsNoOp ==
    \A t \in TrackerIds \ DOMAIN tasks, a \in UpdateArgs :
        update_progress(tasks, t, a[1], a[2], a[3]) = tasks

\* One id is untracked while another task is under way.
C12_Witness ==
    \E t \in TrackerIds, u \in TrackerIds :
        /\ t \notin DOMAIN tasks
        /\ u \in DOMAIN tasks
        /\ tasks[u].status = GENERATING /\ tasks[u].progress = 40

\* C13: create_task inserts a pending record at progress 0 with the
\* description as message and neither result nor error, and a task comes
\* to be pending only through create_task.
C13_OnlyCreateTaskMakesPending ==
    [][/\ \A t \in TrackerIds, d \in Descriptions :
             CreateTaskCall(t, d) =>
                /\ tasks'[t].status = PENDING /\ tasks'[t].progress = 0
                /\ tasks'[t].message = d
                /\ tasks'[t].result = None /\ tasks'[t].error = None
       /\ \A t \in DOMAIN tasks' :
             (/\ tasks'[t].status = PENDING
              /\ ~(t \in DOMAIN tasks /\ tasks[t].status = PENDING)) =>
                \E d \in Descriptions : CreateTaskCall(t, d)]_vars

\* C14: cleanup_old_tasks(max_age_hours) removes exactly the completed and
\* failed tasks whose updated_at is before the cutoff; every task in another
\* status, and every finished task updated at or after the cutoff, stays as
\* it was.
C14_CleanupRemovesOldTerminal ==
    [][\A h \in 0..MaxAgeHours :
          CleanupOldTasksCall(h) =>
             LET cutoff == now - h * TicksPerHour
                 Age(t) == fromisoformat(tasks[t].updated_at)
             IN \A t \in DOMAIN tasks :
                  /\ (tasks[t].status \in {COMPLETED, FAILED} /\ Age(t) < cutoff)
                        => t \notin DOMAIN tasks'
                  /\ (tasks[t].status \in {PENDING, INITIALIZING, GENERATING, PROCESSING}
                      \/ Age(t) >= cutoff)
                        => (t \in DOMAIN tasks' /\ tasks'[t] = tasks[t])]_vars

\* After a sweep one task is gone and a finished task updated exactly at
\* the cutoff is still there.
C14_Witness ==
    /\ response.kind = "cleanup_old_tasks"
    /\ \E t \in TrackerIds, u \in TrackerIds :
          /\ t \notin DOMAIN tasks
          /\ u \in DOMAIN tasks
          /\ tasks[u].status \in Terminal
          /\ fromisoformat(tasks[u].updated_at) = now - response.id * TicksPerHour
          /\ fromisoformat(tasks[u].updated_at) < now

\* C15: get_task leaves the registry as it was, for a tracked and for an
\* untracked id: no task is removed by a read, however old.
C15_GetTaskChangesNothing ==
    [][\A t \in TrackerIds : GetTaskCall(t) => tasks' = tasks]_vars

\* A read has returned a finished task older than every sweep's age, and
\* the task is still tracked.
C15_Witness ==
    /\ response.kind = "get_task" /\ response.task # None
    /\ response.id \in DOMAIN tasks
    /\ tasks[response.id] = response.task[1]
    /\ tasks[response.id].status \in Terminal
    /\ fromisoformat(tasks[response.id].updated_at) < now - MaxAgeHours * TicksPerHour

\* ================================================ pipeline properties

\* str(e) of the KeyError that `self._tasks[task_id]` raises, as the
\* pipeline's handler sees it.
KeyErrors == {Some("KeyError"), Some("TTS generation failed: KeyError")}

\* A stage of the pipeline (initialize, generate, encode, persist) raised.
StageRaised(t) == bg[t].exc # None /\ bg[t].exc \notin KeyErrors

\* The Generation the run of task t wrote is visible to readers.
RunGenerationVisible(t) ==
    /\ bg[t].gid # 0
    /\ \/ get_generation(gens, bg[t].gid) # None
       \/ \E v \in {None} \cup {Some(x) : x \in VoiceIds} :
             \E g \in list_generations(gens, v) : g.id = bg[t].gid

\* C3: when a stage raises, the pipeline calls fail_task with the error's
\* text: once it has ended, the task is failed with that text if it is
\* still tracked, and no exception has left the pipeline.
C3_StageErrorFailsTask ==
    \A t \in TaskIds :
        (bg[t].pc = "done" /\ bg[t].exc # None) =>
            /\ ~bg[t].escaped
            /\ t \in DOMAIN tasks =>
                  (tasks[t].status = FAILED /\ tasks[t].error = bg[t].exc)

\* C4: the pipeline of every accepted asynchronous request eventually leaves
\* its task completed or failed, unless the task record has been deleted.
C4_AcceptedTaskEnds ==
    \A t \in TaskIds :
        (bg[t].pc # "idle") ~> (t \notin DOMAIN tasks \/ tasks[t].status \in Terminal)

\* A pipeline whose synthesis raised has ended with its task failed.
C4_Witness ==
    \E t \in TaskIds :
        /\ bg[t].pc = "done"
        /\ bg[t].exc = Some("TTS generation failed: model.generate failed")
        /\ t \in DOMAIN tasks
        /\ tasks[t].status = FAILED

\* A run that failed leaves no Generation of its own visible.
FailedRunLeavesNothing ==
    \A t \in TaskIds :
        (StageRaised(t) \/ (t \in DOMAIN tasks /\ tasks[t].status = FAILED)) =>
            ~RunGenerationVisible(t)

\* The step in which the record of t comes to be completed with its result.
BecomesCompleted(t) ==
    /\ t \in DOMAIN tasks'
    /\ tasks'[t].status = COMPLETED /\ tasks'[t].result # None
    /\ ~(t \in DOMAIN tasks /\ tasks[t].status = COMPLETED /\ tasks[t].result # None)

\* C5 as stated: a failed run leaves no Generation visible, and when a task
\* becomes completed its result carries the id of a Generation that is in
\* the store at that moment.
C5_CompletedGenerationExists ==
    /\ []FailedRunLeavesNothing
    /\ [][\A t \in TaskIds :
            BecomesCompleted(t) =>
               get_generation(gens', tasks'[t].result[1].id) # None]_vars

\* C5 amended: a failed run leaves no Generation visible, and when a task
\* becomes completed its result is the record of the Generation its run
\* persisted, which is in the store at that moment unless a
\* delete_generation request has removed its container since.
C5_CompletedGenerationPersisted ==
    /\ []FailedRunLeavesNothing
    /\ [][\A t \in TaskIds :
            BecomesCompleted(t) =>
               /\ tasks'[t].result = Some(bg[t].meta)
               /\ bg[t].meta.id = bg[t].gid
               /\ \/ get_generation(gens', bg[t].gid) = Some(bg[t].meta)
                  \/ bg[t].gid \notin DOMAIN gens']_vars

\* A task completed while the Generation of its result is in the store.
C5_Witness ==
    \E t \in TaskIds :
        /\ bg[t].pc = "done" /\ bg[t].exc = None
        /\ t \in DOMAIN tasks
        /\ tasks[t].status = COMPLETED
        /\ tasks[t].result = Some(bg[t].meta)
        /\ get_generation(gens, bg[t].gid) = Some(bg[t].meta)

\* The <<status, progress, message>> triples the pipeline's update_progress
\* calls write.
PipelineUpdates ==
    {<<c.status[1], c.progress[1], c.message[1]>> :
        c \in {InitializingUpdate, GeneratingUpdate, ProcessingUpdate, SavingUpdate}
               \cup {StageUpdate(i) : i \in 1..Len(StageMessages)}}

\* A record as some whole tracker call of the pipeline leaves it.
WholeRecord(r) ==
    \/ r = NewTask(StartDescription)
    \/ /\ <<r.status, r.progress, r.message>> \in PipelineUpdates
       /\ r.result = None /\ r.error = None
    \/ /\ r.status = COMPLETED /\ r.progress = 100
       /\ r.message = "Completed successfully"
       /\ r.result # None /\ r.error = None
    \/ /\ r.status = FAILED /\ r.message = "Failed"
       /\ r.error # None /\ r.result = None
       /\ r.progress \in {0} \cup {u[2] : u \in PipelineUpdates}

\* C6: a get_task that runs while the pipeline mutates the record returns
\* the record as it was before a mutation or as it is after it, never a
\* record with only some of the mutation's fields written.
C6_GetTaskSeesWholeRecord ==
    (response.kind = "get_task" /\ response.task # None) =>
        WholeRecord(response.task[1])

\* C7: after delete_task during a run the record stays absent, the
\* pipeline's tracker calls return silently, and the pipeline runs on to
\* persist its Generation.
C7_DeleteLeavesPipelineRunning ==
    [][\A t \in TaskIds :
          (bg[t].pc # "idle" /\ t \notin DOMAIN tasks) =>
             /\ t \notin DOMAIN tasks'
             /\ bg'[t].exc \notin KeyErrors
             /\ ~bg'[t].escaped
             /\ (bg'[t].pc = "done" /\ bg'[t].exc = None) => bg'[t].gid # 0]_vars

\* C8: the Generation a successful request persisted records the model the
\* request named, which is the model that synthesized its audio.
C8_GenerationRecordsRequestedModel ==
    \A t \in TaskIds :
        (bg[t].pc \in {"complete", "done"} /\ bg[t].exc = None /\ bg[t].model # None) =>
            /\ bg[t].meta.model = bg[t].model[1]
            /\ bg[t].used = bg[t].model

\* ------------------------------------------------- voice store properties
GenerationRequest(v, m) == GenerateSpeech(v, m) \/ GenerateSpeechAsync(v, m)

\* A rejected request created no task, started no pipeline, loaded no model
\* and persisted no Generation.
NothingStarted == UNCHANGED <<tasks, bg, nextTask, tts, backend, gens, nextGen>>

\* No metadata record is stored under the id.
NoStoredVoice(v) == v \notin DOMAIN voices \/ voices[v].meta = "none"

\* C16: a generation request, synchronous or asynchronous, that names a
\* voice id with no stored voice is answered 404 and creates no task, loads
\* no model and persists no Generation.
C16_UnknownVoiceIs404 ==
    [][\A v \in VoiceIds, m \in VoiceRequestModels :
          (NoStoredVoice(v) /\ GenerationRequest(v, m)) =>
             (response'.code = 404 /\ NothingStarted)]_vars

C16_Witness ==
    /\ response.kind = "generate" /\ response.code = 404
    /\ "v2" \notin DOMAIN voices
    /\ "v3" \in DOMAIN voices /\ voices["v3"].meta = "none" /\ voices["v3"].audio
    /\ voices["v3"].transcription = Some(<<"a", "\r", "\n", "b">>)
    /\ tasks = << >> /\ gens = << >> /\ tts.current_model = None

\* The voice is stored as create_voice_sample leaves it when it is given
\* audio and no transcription.
CreatedWithoutTranscription(vs, v) ==
    /\ get_voice(vs, v)
    /\ vs[v].audio
    /\ vs[v].transcription = None

\* C17: a voice created with audio and without transcription is stored with
\* has_transcription false, and a generation request (either style) against
\* it is answered 400 and creates no task, loads no model and persists no
\* Generation.
C17_NoTranscriptionIs400 ==
    /\ [](\A v \in VoiceIds \ DOMAIN voices, tr \in {None, Some(<<>>)} :
            LET created == create_voice_sample(voices, v, WavData, "raise", tr)
            IN  CreatedWithoutTranscription(created, v) /\ ~has_transcription(created, v))
    /\ [][\A v \in VoiceIds, m \in VoiceRequestModels :
             (CreatedWithoutTranscription(voices, v) /\ GenerationRequest(v, m)) =>
                (~has_transcription(voices, v) /\ response'.code = 400 /\ NothingStarted)]_vars

C17_Witness ==
    /\ response.kind = "generate_async" /\ response.code = 400
    /\ "v2" \notin DOMAIN voices
    /\ "v3" \in DOMAIN voices /\ CreatedWithoutTranscription(voices, "v3")
    /\ ~has_transcription(voices, "v3")
    /\ tasks = << >> /\ gens = << >> /\ tts.current_model = None

\* The request is accepted: the asynchronous handler created its task, or the
\* synchronous one went past its checks to synthesis.
Accepted(v, m) ==
    \/ GenerateSpeechAsync(v, m) /\ response'.code = 202
    \/ GenerateSpeech(v, m) /\ response'.code \notin {400, 404}
          /\ ~get_voice_raises(voices, v)

\* C18: whenever a generation request is accepted, the voice's metadata has
\* has_transcription true and its audio blob exists at that moment.
C18_AcceptedVoiceHasTranscription ==
    [][\A v \in VoiceIds, m \in VoiceRequestModels :
          Accepted(v, m) =>
             /\ get_voice(voices, v) /\ has_transcription(voices, v)
             /\ get_voice_audio_path(voices, v)]_vars

\* C19: in every state of the store a request can observe, every voice with
\* a metadata record has has_transcription true exactly when its
\* transcription blob exists.
C19_FlagMatchesBlob ==
    \A v \in DOMAIN voices :
        get_voice(voices, v) =>
            (has_transcription(voices, v) <=> voices[v].transcription # None)

\* C20: for an existing voice update_voice_transcription(id, text) returns
\* True, after which get_voice_transcription(id) returns exactly text and
\* get_voice(id) has has_transcription true; for an id whose container does
\* not exist it returns False and changes nothing in the store.
C20_UpdateThenReadBack ==
    \A v \in VoiceIds, text \in Texts :
        LET updated == update_voice_transcription(voices, v, text)
        IN  /\ get_voice(voices, v) =>
                  /\ update_voice_transcription_returns(voices, v)
                  /\ get_voice_transcription(updated, v) = Some(text)
                  /\ get_voice(updated, v) /\ has_transcription(updated, v)
            /\ v \notin DOMAIN voices =>
                  /\ ~update_voice_transcription_returns(voices, v)
                  /\ updated = voices

\* The ids list_voices returns, whatever the order of the directory walk.
ListedVoices(vs) ==
    IF list_voices_raises(vs) THEN {}
    ELSE UNION {{list_voices(vs, o)[i].id : i \in 1..Len(list_voices(vs, o))} :
                  o \in Orders(DOMAIN vs)}

\* C21: after delete_voice(id) returned True, get_voice, get_voice_audio_path
\* and get_voice_transcription return nothing for id, no list_voices result
\* holds the voice and a second delete_voice(id) returns False; the id stays
\* absent until a new voice is created under it.
C21_DeletedVoiceIsAbsent ==
    /\ [](\A v \in DOMAIN voices :
            LET deleted == delete_voice(voices, v)
            IN  /\ delete_voice_returns(voices, v)
                /\ ~get_voice(deleted, v) /\ ~get_voice_raises(deleted, v)
                /\ ~get_voice_audio_path(deleted, v)
                /\ get_voice_transcription(deleted, v) = None
                /\ v \notin ListedVoices(deleted)
                /\ ~delete_voice_returns(deleted, v))
    /\ [][\A v \in VoiceIds :
             /\ (DeleteVoiceRoute(v) /\ response'.code = 204) => v \notin DOMAIN voices'
             /\ (v \notin DOMAIN voices /\ v \in DOMAIN voices') =>
                    response'.kind = "create_voice"]_vars

C21_Witness ==
    /\ response.kind = "delete_voice" /\ response.code = 204
    /\ "v2" \notin DOMAIN voices
    /\ ListedVoices(voices) = {"v1", "v3"}
    /\ get_voice_transcription(voices, "v3") # None

\* C23: a create_voice_sample that failed while writing the audio, the
\* transcription or the metadata leaves a voice that no later list_voices
\* returns; a voice is listed only when both its audio blob and its
\* metadata record have been written.
C23_FailedCreateNotListed ==
    \* what is listed has its audio and its metadata
    /\ [](\A v \in ListedVoices(voices) : voices[v].audio /\ voices[v].meta = "ok")
    \* a failed creation leaves no complete metadata, and none appears later
    /\ [][\A v \in VoiceIds :
             /\ (v \notin DOMAIN voices /\ v \in DOMAIN voices' /\ response'.code = 500) =>
                    voices'[v].meta # "ok"
             /\ (v \in DOMAIN voices /\ voices[v].meta # "ok" /\ v \in DOMAIN voices') =>
                    voices'[v].meta # "ok"]_vars

C23_Witness ==
    /\ response.kind = "create_voice" /\ response.code = 500
    /\ "v3" \in DOMAIN voices /\ voices["v3"].audio
    /\ voices["v3"].transcription # None /\ voices["v3"].meta = "none"
    /\ ListedVoices(voices) = {"v1", "v2"}

\* C24: list_voices and list_generations pass over every container whose
\* metadata is missing or malformed and return all the other entries; a
\* corrupt entry never makes the listing fail.
C24_ListingSkipsCorrupt ==
    /\ ~list_voices_raises(voices)
    /\ ListedVoices(voices) = {v \in DOMAIN voices : voices[v].meta = "ok"}
    /\ ~list_generations_raises(gens)
    /\ list_generations(gens, None) =
          {GenMetadata(gens, g) : g \in {x \in DOMAIN gens : gens[x].meta = "ok"}}

\* C25 as stated: for all audio bytes B, creating a voice with B and reading
\* the bytes at get_voice_audio_path(id) yields exactly B.
C25_AudioRoundTrip ==
    \A v \in VoiceIds \ DOMAIN voices, b \in Uploads, conv \in ConvOutcomes :
        LET created == create_voice_sample(voices, v, b, conv, None)
        IN  get_voice_audio_path(created, v) /\ read_bytes(created, v) = b

\* C25, amended: for all audio bytes B that are a WAV file already, or that
\* no converter decodes, creating a voice with B and reading the bytes at
\* get_voice_audio_path(id) yields exactly B.
C25_WavRoundTrip ==
    \A v \in VoiceIds \ DOMAIN voices, b \in Uploads, conv \in ConvOutcomes :
        LET created == create_voice_sample(voices, v, b, conv, None)
        IN  ((Len(b) >= 3 /\ b[1] = "RIFF" /\ b[3] = "WAVE") \/ conv = "raise") =>
               (get_voice_audio_path(created, v) /\ read_bytes(created, v) = b)

C25_Witness ==
    /\ response.kind = "create_voice" /\ response.code = 201
    /\ "v2" \in DOMAIN voices /\ read_bytes(voices, "v2") = WebmData
    /\ "v3" \in DOMAIN voices /\ read_bytes(voices, "v3") = WavData
    /\ voices["v3"].created_at = isoformat(1)

\* ------------------------------------------------ generation store properties
Persisted(gs, g) == g \in DOMAIN gs /\ gs[g].meta = "ok" /\ gs[g].audio

\* C22: a persisted Generation (its record and its audio) is the same in
\* every later state unless delete_generation removed it, and deleting its
\* source voice leaves what get_generation, get_generation_audio_path and
\* list_generations return for it unchanged.
C22_GenerationImmutable ==
    [][/\ \A g \in GenIds :
             Persisted(gens, g) =>
                \/ g \in DOMAIN gens' /\ gens'[g] = gens[g]
                \/ response'.kind = "delete_generation" /\ response'.id = g
                      /\ response'.code = 204
       /\ \A v \in VoiceIds :
             (v \in DOMAIN voices /\ v \notin DOMAIN voices') =>
                \A g \in GenIds :
                   /\ get_generation(gens', g) = get_generation(gens, g)
                   /\ get_generation_audio_path(gens', g) = get_generation_audio_path(gens, g)
                   /\ list_generations(gens', Some(v)) = list_generations(gens, Some(v))
                   /\ list_generations(gens', None) = list_generations(gens, None)]_vars

C22_Witness ==
    /\ response.kind = "delete_voice" /\ response.code = 204
    /\ "v1" \notin DOMAIN voices
    /\ Persisted(gens, 1) /\ gens[1].voice_id = "v1"
    /\ get_generation(gens, 1) \in {Some(x) : x \in list_generations(gens, Some("v1"))}

StoredGenerations(gs) == {g \in DOMAIN gs : gs[g].meta = "ok"}

\* C26: list_generations(voice_id) returns exactly the stored generations
\* whose voice_id is voice_id, and list_generations() returns every stored
\* generation.
C26_ListGenerationsFilter ==
    /\ ~list_generations_raises(gens)
    /\ \A v \in VoiceIds :
          list_generations(gens, Some(v)) =
             {GenMetadata(gens, g) : g \in {x \in StoredGenerations(gens) : gens[x].voice_id = v}}
    /\ list_generations(gens, None) =
          {GenMetadata(gens, g) : g \in StoredGenerations(gens)}

\* Adjacent entries: the earlier one is not older than the later one.
NewestFirst(r) ==
    \A i \in 1..(Len(r) - 1) :
        fromisoformat(r[i].created_at) >= fromisoformat(r[i + 1].created_at)

\* C27: what list_voices and list_generations return is ordered by
\* created_at descending, whatever the order of the directory walk.
C27_ListingsNewestFirst ==
    /\ ~list_voices_raises(voices) =>
          \A o \in Orders(DOMAIN voices) : NewestFirst(list_voices(voices, o))
    /\ ~list_generations_raises(gens) =>
          \A o \in Orders(DOMAIN gens), f \in {None} \cup {Some(v) : v \in VoiceIds} :
              NewestFirst(list_generations_sorted(gens, f, o))

C27_Witness ==
    /\ DOMAIN voices = VoiceIds /\ ~list_voices_raises(voices)
    /\ list_voices(voices, <<"v1", "v2", "v3">>)[1].id = "v3"
    /\ list_voices(voices, <<"v1", "v2", "v3">>)[3].id = "v2"
    /\ DOMAIN gens = {1, 2} /\ ~list_generations_raises(gens)
    /\ Len(list_generations_sorted(gens, Some("v1"), <<1, 2>>)) = 2
    /\ list_generations_sorted(gens, Some("v1"), <<1, 2>>)[1].id = 2
    /\ fromisoformat(gens[2].created_at) > fromisoformat(gens[1].created_at)


\* ------------------------------------------------- backend properties
\* C28: load_model with a name outside the active platform's catalog raises
\* ValueError and leaves the instance's resident model and loaded-model name
\* as they were; TTSService.initialize with such a name raises the same and
\* leaves the service's current_model, and the instance, as they were.
C28_InvalidModelLeavesState ==
    [][/\ \A b \in BackendIds, ok \in BOOLEAN,
             m \in ModelNames \ list_available_models(variant) :
             LoadModelCall(b, m, ok) =>
                 /\ response'.task = Some("ValueError")
                 /\ backend'[b]._model = backend[b]._model
                 /\ backend'[b]._current_model_name = backend[b]._current_model_name
                 /\ tts'.current_model = tts.current_model
       /\ \A ok \in BOOLEAN, m \in ModelNames \ list_available_models(variant) :
             InitializeCall(Some(m), ok) =>
                 /\ response'.task = Some("ValueError")
                 /\ backend' = backend
                 /\ tts'.current_model = tts.current_model]_vars

\* An unknown name has been refused by an instance that holds a model, the
\* service naming a model as current.
C28_Witness ==
    /\ response.kind \in {"load_model", "initialize"}
    /\ response.task = Some("ValueError")
    /\ is_model_loaded(backend[response.id])
    /\ tts.current_model # None


\* A load_model call on instance b has started and not returned.
LoadInProgress(b) ==
    \E t \in TaskIds : bg[t].pc \in {"load", "set_name"} /\ bg[t].b = b

\* C29: on the MLX backend, on an instance where no load is under way,
\* load_model of the resident model enters no load and leaves it resident,
\* and a successful load_model of any catalog model leaves that model the
\* resident one.
C29_LoadModelIdempotent ==
    variant = "mlx" =>
        \A b \in BackendIds : ~LoadInProgress(b) =>
            \A m \in list_available_models("mlx") :
                LET r == mlx_load_model(backend[b], m, TRUE)
                IN /\ backend[b]._model = Some(m) =>
                          r.loads = 0 /\ r.b._model = Some(m)
                   /\ r.raised = None /\ r.b._model = Some(m)


\* No PyTorch instance ever reports a loaded model.
NeverLoaded ==
    variant = "pytorch" => \A b \in BackendIds : ~is_model_loaded(backend[b])

\* C30: on the PyTorch backend every load_model call and every generate
\* call raises NotImplementedError whatever its arguments, and no sequence
\* of calls makes is_model_loaded true.
C30_EveryCallUnimplemented ==
    /\ []NeverLoaded
    /\ [][variant = "pytorch" =>
            /\ \A b \in BackendIds, m \in ModelNames, ok \in BOOLEAN :
                  LoadModelCall(b, m, ok) =>
                      response'.task = Some("NotImplementedError")
            /\ \A b \in BackendIds, out \in GenOutcomes, n \in 0..MaxSamples :
                  GenerateCall(b, out, n) =>
                      response'.task = Some("NotImplementedError")]_vars

\* C30 as the code has it: on the PyTorch backend every load_model call with
\* a catalog name and every generate call raises NotImplementedError, a
\* load_model call with a name outside the catalog raises ValueError, and no
\* sequence of calls makes is_model_loaded true.
C30_CatalogCallsUnimplemented ==
    /\ []NeverLoaded
    /\ [][variant = "pytorch" =>
            /\ \A b \in BackendIds, m \in ModelNames, ok \in BOOLEAN :
                  LoadModelCall(b, m, ok) =>
                      response'.task =
                          IF m \in list_available_models("pytorch")
                          THEN Some("NotImplementedError")
                          ELSE Some("ValueError")
            /\ \A b \in BackendIds, out \in GenOutcomes, n \in 0..MaxSamples :
                  GenerateCall(b, out, n) =>
                      response'.task = Some("NotImplementedError")]_vars

\* A PyTorch instance has refused to load a catalog model after the service
\* was asked to initialize.
C30_Witness ==
    /\ variant = "pytorch"
    /\ response.kind = "load_model"
    /\ response.task = Some("NotImplementedError")
    /\ tts.backend # 0


\* C31: backend.generate on an instance with no model loaded (never loaded,
\* or unloaded) raises the "No model loaded" RuntimeError, calls no
\* progress callback and returns no samples.
C31_GenerateWithoutModel ==
    [][\A b \in BackendIds, out \in GenOutcomes, n \in 0..MaxSamples :
          (GenerateCall(b, out, n) /\ ~is_model_loaded(backend[b])) =>
              /\ response'.task = Some("RuntimeError: No model loaded")
              /\ response'.code = 0
              /\ response'.samples = None]_vars

\* C31 on the MLX backend only.
C31_MlxGenerateWithoutModel ==
    [][\A b \in BackendIds, out \in GenOutcomes, n \in 0..MaxSamples :
          (variant = "mlx" /\ GenerateCall(b, out, n)
              /\ ~is_model_loaded(backend[b])) =>
              /\ response'.task = Some("RuntimeError: No model loaded")
              /\ response'.code = 0
              /\ response'.samples = None]_vars

\* generate has been refused on an MLX instance whose model was unloaded,
\* the service still naming a current model.
C31_Witness ==
    /\ variant = "mlx"
    /\ response.kind = "backend_generate"
    /\ response.task = Some("RuntimeError: No model loaded")
    /\ tts.backend = response.id
    /\ tts.current_model # None


\* C32: initialize() with no model name, when the catalog is empty, raises
\* "No models available", loads nothing and leaves the instance and
\* current_model as they were; otherwise, when it returns, the first entry
\* of the catalog is resident and is the service's current_model, and when
\* it raises, the exception is load_model's and current_model is unchanged.
C32_InitializeDefault ==
    [][\A ok \in BOOLEAN :
          InitializeCall(None, ok) =>
              LET inst == tts'.backend
              IN IF Len(catalog) = 0
                 THEN /\ response'.task = Some("RuntimeError: No models available")
                      /\ response'.code = 0
                      /\ backend' = backend
                      /\ tts'.current_model = tts.current_model
                 ELSE IF response'.task = None
                 THEN /\ variant = "mlx"
                      /\ backend'[inst]._model = Some(catalog[1])
                      /\ tts'.current_model = Some(catalog[1])
                 ELSE /\ response'.task \in
                            {Some("Exception"), Some("NotImplementedError")}
                      /\ response'.task = Some("Exception") => ~ok
                      /\ tts'.current_model = tts.current_model]_vars

\* initialize() has loaded the first entry of a catalog that is not in the
\* shipped order.
C32_Witness ==
    /\ variant = "mlx"
    /\ Len(catalog) > 0
    /\ catalog[1] # Catalog[1]
    /\ response.kind = "initialize"
    /\ response.task = None
    /\ response.code = 1
    /\ tts.current_model = Some(catalog[1])
    /\ backend[tts.backend]._model = Some(catalog[1])


\* C33: TTSService.generate called while the service has no backend or its
\* backend has no model loaded runs initialize() first: it never raises
\* "No model loaded", and when it reaches the synthesis the model that
\* synthesizes is the one initialize() loaded, the first of the catalog,
\* which is then the service's current_model.
C33_GenerateAutoInitializes ==
    [][\A exists \in BOOLEAN, ok \in BOOLEAN, out \in GenOutcomes, n \in 0..MaxSamples :
          (/\ ServiceGenerateCall(exists, ok, out, n)
           /\ (tts.backend = 0 \/ ~is_model_loaded(backend[tts.backend]))) =>
              /\ response'.task # Some("RuntimeError: No model loaded")
              /\ response'.invoked =>
                    /\ response'.loads = 1
                    /\ response'.used = Some(catalog[1])
                    /\ tts'.current_model = Some(catalog[1])
                    /\ is_model_loaded(backend'[tts'.backend])]_vars

\* A generate call on a service with no model loaded has loaded
\* the first catalog model and returned samples.
C33_Witness ==
    /\ variant = "mlx"
    /\ response.kind = "generate"
    /\ response.task = None
    /\ response.loads = 1
    /\ response.samples # None
    /\ Len(catalog) > 1
    /\ response.used = Some(catalog[1])


\* ------------------------------------------------- pipeline properties
\* The run of task t is under way and has not yet read the reference
\* audio.
BeforeSynthesis(t) ==
    (IF bg[t].pc = "call" THEN bg[t].ret ELSE bg[t].pc) \in
        {"start", "init", "mk_backend", "resolve", "load", "set_name",
         "set_current", "after_init", "gen", "gen_path", "ref_audio"}

\* TTSService.generate, finding no file at the reference audio path, raises
\* "Reference audio not found" and backend.generate is not entered.
MissingAudioIsRefused ==
    \A t \in TaskIds :
        (/\ bg[t].pc = "gen_path"
         /\ ~get_voice_audio_path(voices, bg[t].voice)
         /\ bg'[t] # bg[t]) =>
            /\ bg'[t].pc = "except"
            /\ bg'[t].exc = Some("Reference audio not found")

\* C34: TTSService.generate raises "Reference audio not found" without
\* entering backend.generate when the path is no file; and a run whose
\* voice is deleted before the reference audio is read ends with its task
\* failed and no generation container made.
C34_MissingAudioFailsTask ==
    /\ [][MissingAudioIsRefused]_vars
    /\ \A t \in TaskIds :
          (BeforeSynthesis(t) /\ ~get_voice_audio_path(voices, bg[t].voice)) ~>
              (/\ bg[t].pc = "done"
               /\ bg[t].gid = 0
               /\ t \in DOMAIN tasks
               /\ tasks[t].status = FAILED)

\* C34 with the task allowed to have been deleted meanwhile.
C34_MissingAudioFailsTrackedTask ==
    /\ [][MissingAudioIsRefused]_vars
    /\ \A t \in TaskIds :
          (BeforeSynthesis(t) /\ ~get_voice_audio_path(voices, bg[t].voice)) ~>
              (/\ bg[t].pc = "done"
               /\ bg[t].gid = 0
               /\ t \in DOMAIN tasks => tasks[t].status = FAILED)

\* A run whose voice was deleted has ended at the path check, its task
\* failed with that error.
C34_Witness ==
    \E t \in TaskIds :
        /\ bg[t].pc = "done"
        /\ bg[t].exc = Some("Reference audio not found")
        /\ bg[t].voice \notin DOMAIN voices
        /\ t \in DOMAIN tasks
        /\ tasks[t].status = FAILED
        /\ tasks[t].error = Some("Reference audio not found")


\* The place of a status on the path pending, initializing, generating,
\* processing, completed.
StageRank(status) ==
    CASE status = PENDING -> 0
      [] status = INITIALIZING -> 1
      [] status = GENERATING -> 2
      [] status = PROCESSING -> 3
      [] status = COMPLETED -> 4
      [] status = FAILED -> 5

\* C35: whenever the status of a tracked task changes during its pipeline
\* run, it was not terminal and it becomes failed or a later stage of the
\* path, and never completed straight from pending or initializing.
C35_StatusMovesForward ==
    [][\A t \in TaskIds :
          (t \in DOMAIN tasks /\ t \in DOMAIN tasks'
              /\ tasks'[t].status # tasks[t].status) =>
              /\ tasks[t].status \notin Terminal
              /\ \/ tasks'[t].status = FAILED
                 \/ /\ StageRank(tasks'[t].status) > StageRank(tasks[t].status)
                    /\ tasks[t].status \in {PENDING, INITIALIZING} =>
                          tasks'[t].status # COMPLETED]_vars

\* A run has gone through every stage: its task is completed at 100.
C35_Witness ==
    \E t \in TaskIds :
        /\ t \in DOMAIN tasks
        /\ tasks[t].status = COMPLETED
        /\ tasks[t].progress = 100
        /\ bg[t].pc = "done"
        /\ ~bg[t].escaped

\* The progress values of a run: 0 at creation, the milestones, and the
\* stage callbacks' values.
Milestones ==
    {0, 10, 30, 80, 90, 100} \cup
    {StageUpdate(i).progress[1] : i \in 1..Len(StageMessages)}

\* C36: the stored progress of a tracked task never decreases during its
\* run; it is one of 0, 10, 30, the stage callbacks' values
\* 30 + floor(40 * current / total), which lie in 30..70, 80, 90 and 100;
\* and failing leaves it where it was.
C36_ProgressNeverDecreases ==
    /\ [](\A t \in DOMAIN tasks : tasks[t].progress \in Milestones)
    /\ [](\A i \in 1..Len(StageMessages) :
             /\ StageUpdate(i).progress[1] = 30 + ((40 * i) \div Len(StageMessages))
             /\ StageUpdate(i).progress[1] \in 30..70)
    /\ [][\A t \in TaskIds :
             (t \in DOMAIN tasks /\ t \in DOMAIN tasks') =>
                 /\ tasks'[t].progress >= tasks[t].progress
                 /\ (tasks'[t].status = FAILED \/ tasks[t].status = FAILED) =>
                       tasks'[t].progress = tasks[t].progress]_vars

\* A run has failed after the fourth stage callback: its task is failed at
\* 62.
C36_Witness ==
    \E t \in TaskIds :
        /\ t \in DOMAIN tasks
        /\ tasks[t].status = FAILED
        /\ tasks[t].progress = 62
        /\ bg[t].pc = "done"


\* C37: in every state, whenever the service's backend reports a model
\* loaded, the service's current_model is the name of the model resident
\* in that backend.
C37_CurrentModelIsResident ==
    (tts.backend # 0 /\ is_model_loaded(backend[tts.backend])) =>
        tts.current_model = backend[tts.backend]._model

\* The same while no initialize call is under way.
C37_AtRest ==
    (\A t \in TaskIds : bg[t].pc \notin
        {"init", "mk_backend", "resolve", "load", "set_name", "set_current"}) =>
        C37_CurrentModelIsResident


\* C38: the handler that accepts an asynchronous request has created the
\* task record, pending at progress 0, before the pipeline starts; a tracked
\* record leaves the registry only through DELETE /tasks/{id}; and a poll
\* of a tracked task is answered with its record.
C38_AcceptedTaskIsTracked ==
    [][/\ \A v \in VoiceIds, m \in RequestModels :
             (GenerateSpeechAsync(v, m) /\ response'.code = 202) =>
                 /\ get_task(tasks', response'.id) = Some(NewTask(StartDescription))
                 /\ bg[response'.id].pc = "idle"
                 /\ bg'[response'.id].pc = "start"
       /\ \A t \in DOMAIN tasks :
             t \notin DOMAIN tasks' => (DeleteTaskRoute(t) /\ response'.code = 204)
       /\ \A t \in DOMAIN tasks :
             GetTaskStatus(t) => (response'.code = 200 /\ response'.task = Some(tasks[t]))]_vars

\* The handler has just answered 202: the record is there, pending at 0,
\* and the pipeline has not taken a step.
C38_Witness ==
    /\ response.kind = "generate_async"
    /\ response.code = 202
    /\ response.id \in DOMAIN tasks
    /\ tasks[response.id].status = PENDING
    /\ tasks[response.id].progress = 0
    /\ bg[response.id].pc = "start"


\* C39: create_task on an id that is tracked, whatever its record holds,
\* leaves under that id a fresh record, pending at progress 0 with the
\* description as message and neither result nor error, and leaves every
\* other record as it was.
C39_CreateTaskReplaces ==
    \A t \in DOMAIN tasks, d \in Descriptions :
        LET reg == create_task(tasks, t, d)
        IN /\ DOMAIN reg = DOMAIN tasks
           /\ reg[t].status = PENDING /\ reg[t].progress = 0
           /\ reg[t].message = d
           /\ reg[t].result = None /\ reg[t].error = None
           /\ \A u \in DOMAIN tasks \ {t} : reg[u] = tasks[u]

\* A record that is completed and carries both a result and an error is
\* replaced by create_task, beside a failed one that stays.
C39_Witness ==
    \E t \in DOMAIN tasks, u \in DOMAIN tasks :
        /\ tasks[t].status = COMPLETED
        /\ tasks[t].result # None /\ tasks[t].error # None
        /\ tasks[u].status = FAILED
        /\ create_task(tasks, t, StartDescription)[t] = NewTask(StartDescription)
        /\ create_task(tasks, t, StartDescription)[u] = tasks[u]

====
